---- MODULE Spec2Model ----
(***************************************************************************)
(* Model of the concurrent crawl engine of link_extractor.py               *)
(* (LinkExtractor): URL normalisation and domain policy as operators on    *)
(* character sequences, the frontier / visited / result stores, the        *)
(* worker tasks (process_url), the orchestration loop (run), the ledger    *)
(* writers (save_link_realtime, save_links) and the termination detector   *)
(* (check_for_new_links).                                                  *)
(*                                                                         *)
(* A Python str is modelled as a sequence of one-character strings, so     *)
(* that urlparse, rstrip, endswith, lower and sorted are computed the way  *)
(* the interpreter computes them.                                          *)
(***************************************************************************)
EXTENDS Integers, Sequences, FiniteSets, TLC

(***************************************************************************)
(* Python str helpers                                                      *)
(***************************************************************************)
ascii_lowercase == <<"a","b","c","d","e","f","g","h","i","j","k","l","m","n","o","p","q","r","s","t","u","v","w","x","y","z">>
ascii_uppercase == <<"A","B","C","D","E","F","G","H","I","J","K","L","M","N","O","P","Q","R","S","T","U","V","W","X","Y","Z">>
digits == <<"0","1","2","3","4","5","6","7","8","9">>

Range(s) == { s[i] : i \in 1..Len(s) }

\* str.lower() on one character
LowerChar(c) ==
  IF \E i \in 1..Len(ascii_uppercase) : ascii_uppercase[i] = c
  THEN ascii_lowercase[CHOOSE i \in 1..Len(ascii_uppercase) : ascii_uppercase[i] = c]
  ELSE c

\* str.lower()
Lower(s) == [ i \in 1..Len(s) |-> LowerChar(s[i]) ]

\* s[i:] with a 1-based first index
Tail_from(s, i) == SubSeq(s, i, Len(s))

\* str.startswith
StartsWith(s, p) == Len(p) <= Len(s) /\ SubSeq(s, 1, Len(p)) = p

\* str.endswith
EndsWith(s, p) == Len(p) <= Len(s) /\ SubSeq(s, Len(s) - Len(p) + 1, Len(s)) = p

\* 1-based index of the first character of s at or after position from that
\* lies in chars, 0 when there is none (str.find is 0-based with -1 for none)
FindFrom(s, chars, from) ==
  IF \E i \in from..Len(s) : s[i] \in chars
  THEN CHOOSE i \in from..Len(s) : s[i] \in chars /\ \A j \in from..(i-1) : s[j] \notin chars
  ELSE 0

Find(s, c) == FindFrom(s, {c}, 1)

\* 1-based index of the last occurrence of c in s, 0 when there is none
RFind(s, c) ==
  IF \E i \in 1..Len(s) : s[i] = c
  THEN CHOOSE i \in 1..Len(s) : s[i] = c /\ \A j \in (i+1)..Len(s) : s[j] # c
  ELSE 0

\* str.rstrip(c): every trailing c is removed
RStrip(s, c) ==
  LET keep == IF \E i \in 1..Len(s) : s[i] # c
              THEN CHOOSE i \in 1..Len(s) : s[i] # c /\ \A j \in (i+1)..Len(s) : s[j] = c
              ELSE 0
  IN SubSeq(s, 1, keep)

\* The code point order of the characters that occur in the modelled URLs
CharOrder == <<"#","+","-",".","/">> \o digits \o <<":",";","=","?">>
             \o ascii_uppercase \o ascii_lowercase

Ord(c) == IF \E i \in 1..Len(CharOrder) : CharOrder[i] = c
          THEN CHOOSE i \in 1..Len(CharOrder) : CharOrder[i] = c
          ELSE 0

\* s < t for Python str (lexicographic by code point)
StrLess(s, t) ==
  \E k \in 1..(Len(t)) :
     /\ k <= Len(s) + 1
     /\ SubSeq(s, 1, k-1) = SubSeq(t, 1, k-1)
     /\ (k = Len(s) + 1 \/ (k <= Len(s) /\ Ord(s[k]) < Ord(t[k])))

\* sorted(S) for a set of str
RECURSIVE Sorted(_)
Sorted(S) ==
  IF S = {} THEN <<>>
  ELSE LET m == CHOOSE x \in S : \A y \in S \ {x} : StrLess(x, y)
       IN <<m>> \o Sorted(S \ {m})

(***************************************************************************)
(* urllib.parse: urlparse, urlunparse, urljoin                             *)
(***************************************************************************)
scheme_chars == Range(ascii_lowercase) \cup Range(ascii_uppercase)
                \cup Range(digits) \cup {"+", "-", "."}

\* The schemes of urllib.parse.uses_params / uses_netloc / uses_relative that
\* the modelled URLs use, and the empty scheme
uses_params == { <<>>, <<"h","t","t","p">>, <<"h","t","t","p","s">>, <<"f","t","p">> }

\* str.split(c, 1) around the separator at 1-based index i (0: no separator),
\* as the pair <<before, after>>
SplitAt(s, i) ==
  IF i = 0 THEN << s, <<>> >> ELSE << SubSeq(s, 1, i-1), Tail_from(s, i+1) >>

Split(s, c) == SplitAt(s, Find(s, c))

\* urlsplit: the scheme ends at the first ':' (1-based index i) when the
\* characters before it are scheme characters and the first is a letter
SplitScheme(url, i) ==
  IF /\ i > 1
     /\ url[1] \in (Range(ascii_lowercase) \cup Range(ascii_uppercase))
     /\ \A j \in 1..(i-1) : url[j] \in scheme_chars
  THEN << Lower(SubSeq(url, 1, i-1)), Tail_from(url, i+1) >>
  ELSE << <<>>, url >>

\* _splitnetloc(url, 2) with the first delimiter at 1-based index d (0: none)
SplitNetlocAt(r, d) ==
  IF d = 0 THEN << Tail_from(r, 3), <<>> >>
  ELSE << SubSeq(r, 3, d-1), Tail_from(r, d) >>

\* urlsplit: 'if url[:2] == "//"'
SplitNetloc(r) ==
  IF Len(r) >= 2 /\ r[1] = "/" /\ r[2] = "/"
  THEN SplitNetlocAt(r, FindFrom(r, {"/", "?", "#"}, 3))
  ELSE << <<>>, r >>

\* urlparse: _splitparams, at the first ';' of the last path segment
SplitParams(scheme, s) ==
  IF scheme \in uses_params
  THEN SplitAt(s, FindFrom(s, {";"}, RFind(s, "/") + 1))
  ELSE << s, <<>> >>

ParseParams(scheme, netloc, fragment, query, pp) ==
  [scheme |-> scheme, netloc |-> netloc, path |-> pp[1],
   params |-> pp[2], query |-> query, fragment |-> fragment]

ParseQuery(scheme, netloc, fragment, pq) ==
  ParseParams(scheme, netloc, fragment, pq[2], SplitParams(scheme, pq[1]))

ParseFragment(scheme, netloc, pf) ==
  ParseQuery(scheme, netloc, pf[2], Split(pf[1], "?"))

ParseNetloc(scheme, nr) == ParseFragment(scheme, nr[1], Split(nr[2], "#"))

ParseScheme(sr) == ParseNetloc(sr[1], SplitNetloc(sr[2]))

\* urllib.parse.urlparse(url): scheme, netloc, path, params, query, fragment.
\* The modelled URLs hold no brackets, control characters or whitespace, so
\* urlparse never raises on them.
urlparse(url) == ParseScheme(SplitScheme(url, Find(url, ":")))

\* urlunsplit: '//' + netloc before the path
UnparseNetloc(p, u) ==
  IF p.netloc # <<>> \/ (p.scheme # <<>> /\ ~StartsWith(u, <<"/","/">>))
  THEN <<"/","/">> \o p.netloc
       \o (IF u # <<>> /\ u[1] # "/" THEN <<"/">> ELSE <<>>) \o u
  ELSE u

\* urllib.parse.urlunparse for a scheme of uses_netloc (http, https, ftp, '')
urlunparse(p) ==
  (IF p.scheme # <<>> THEN p.scheme \o <<":">> ELSE <<>>)
  \o UnparseNetloc(p, IF p.params # <<>> THEN p.path \o <<";">> \o p.params ELSE p.path)
  \o (IF p.query # <<>> THEN <<"?">> \o p.query ELSE <<>>)
  \o (IF p.fragment # <<>> THEN <<"#">> \o p.fragment ELSE <<>>)

\* urljoin on the parsed base b and the parsed reference u (whose default
\* scheme is the base scheme)
JoinParsed(base, url, b, u) ==
  IF u.scheme # b.scheme THEN url
  ELSE IF u.netloc # <<>> THEN urlunparse(u)
  ELSE urlunparse([u EXCEPT !.netloc = b.netloc])

WithDefaultScheme(u, scheme) ==
  IF u.scheme = <<>> THEN [u EXCEPT !.scheme = scheme] ELSE u

JoinBase(base, url, b) ==
  JoinParsed(base, url, b, WithDefaultScheme(urlparse(url), b.scheme))

\* urllib.parse.urljoin(base, url) for the two reference forms the modelled
\* pages use: an absolute URL with a network location, and an absolute-path
\* reference ('/b') without dot segments.  Both are http(s).
urljoin(base, url) ==
  IF url = <<>> THEN base ELSE JoinBase(base, url, urlparse(base))

(***************************************************************************)
(* Program constants                                                       *)
(***************************************************************************)
\* self.urls_to_visit = deque(maxlen=10000)
deque_maxlen == 10000
\* len(self.urls_to_visit) < 5000
queue_limit == 5000
\* self.max_urls_per_domain = 1000
max_urls_per_domain == 1000
\* len(url) > 2000
max_url_length == 2000
\* list(set(links))[:100]
max_links_per_page == 100
\* self.no_new_links_cycles < 3
max_idle_cycles == 3
\* self.max_proxy_attempts = 10
max_proxy_attempts == 10
\* self.max_proxy_failures = 3
max_proxy_failures == 3
\* _handle_proxy_failure: max_retries = 3
max_retries == 3

skip_extensions ==
  { <<".","p","d","f">>,
    <<".","j","p","g">>,
    <<".","j","p","e","g">>,
    <<".","p","n","g">>,
    <<".","g","i","f">>,
    <<".","c","s","s">>,
    <<".","j","s">>,
    <<".","i","c","o">>,
    <<".","s","v","g">>,
    <<".","w","o","f","f">>,
    <<".","w","o","f","f","2">>,
    <<".","t","t","f">>,
    <<".","e","o","t">>,
    <<".","z","i","p">>,
    <<".","r","a","r">>,
    <<".","e","x","e">>,
    <<".","d","m","g">>,
    <<".","m","p","4">>,
    <<".","m","p","3">>,
    <<".","a","v","i">>,
    <<".","m","o","v">>,
    <<".","d","o","c">>,
    <<".","d","o","c","x">>,
    <<".","x","l","s">>,
    <<".","x","l","s","x">>,
    <<".","p","p","t">>,
    <<".","p","p","t","x">> }

(***************************************************************************)
(* URL Normalizer and Domain Policy (pure in the URL and the policy        *)
(* configuration, which is passed explicitly)                              *)
(***************************************************************************)
\* normalize_url on the parsed URL
Normalized(parsed) ==
  RStrip(parsed.scheme \o <<":","/","/">> \o parsed.netloc \o parsed.path
         \o (IF parsed.query # <<>> THEN <<"?">> \o parsed.query ELSE <<>>), "/")

\* LinkExtractor.normalize_url
normalize_url(url) == Normalized(urlparse(url))

\* is_valid_url on the normalised URL and its parse
ValidParsed(url, parsed) ==
  /\ parsed.scheme # <<>>
  /\ parsed.netloc # <<>>
  /\ parsed.scheme \in { <<"h","t","t","p">>, <<"h","t","t","p","s">> }
  /\ Len(url) <= max_url_length
  /\ ~ \E ext \in skip_extensions : EndsWith(Lower(url), ext)

ValidNormalized(url) == ValidParsed(url, urlparse(url))

\* LinkExtractor.is_valid_url
is_valid_url(raw) == ValidNormalized(normalize_url(raw))

\* is_domain_ignored: 'if domain.startswith("www."): domain = domain[4:]'
StripWww(dom) ==
  IF StartsWith(dom, <<"w","w","w",".">>) THEN Tail_from(dom, 5) ELSE dom

\* is_domain_ignored: the loop over self.ignored_domains
HostIgnored(dom, ignored) ==
  \E ig \in ignored : dom = ig \/ EndsWith(dom, <<".">> \o ig)

\* LinkExtractor.is_domain_ignored, over the ignored-domain set
is_domain_ignored(url, ignored) ==
  IF ignored = {} THEN FALSE
  ELSE HostIgnored(StripWww(Lower(urlparse(url).netloc)), ignored)

\* The subdomain test written without the dot
host_suffix_without_dot(dom, target_domain) ==
  dom = target_domain \/ EndsWith(dom, target_domain)

\* should_follow_domain: 'domain == target_domain or
\* domain.endswith("." + target_domain)'
HostInScope(dom, target_domain) ==
  dom = target_domain \/ EndsWith(dom, <<".">> \o target_domain)

\* should_follow_domain without the only_this_domain branch
follow_all_domains(url, ignored, only) == ~is_domain_ignored(url, ignored)

\* LinkExtractor.should_follow_domain, over the ignored-domain set and
\* only_this_domain (None and '' are both falsy: the empty sequence)
should_follow_domain(url, ignored, only) ==
  IF is_domain_ignored(url, ignored) THEN FALSE
  ELSE IF only # <<>>
       THEN HostInScope(Lower(urlparse(url).netloc), Lower(only))
       ELSE TRUE

\* dict.get(key, 0)
Get(d, k) == IF k \in DOMAIN d THEN d[k] ELSE 0

\* LinkExtractor.is_url_limit_reached, over domain_url_count
is_url_limit_reached(url, counts, limit) ==
  Get(counts, Lower(urlparse(url).netloc)) >= limit

\* increment_domain_count on the lowercased netloc
Incremented(dom, counts) ==
  [ k \in DOMAIN counts \cup {dom} |->
      IF k = dom THEN Get(counts, dom) + 1 ELSE counts[k] ]

\* LinkExtractor.increment_domain_count: the updated domain_url_count
increment_domain_count(url, counts) ==
  Incremented(Lower(urlparse(url).netloc), counts)

\* LinkExtractor.should_crawl_url
should_crawl_url(url, ignored, counts, limit) ==
  ~is_domain_ignored(url, ignored) /\ ~is_url_limit_reached(url, counts, limit)

\* 1-based index of the first occurrence of the substring p in s, 0 for none
FindSub(s, p) ==
  IF \E i \in 1..Len(s) : StartsWith(Tail_from(s, i), p)
  THEN CHOOSE i \in 1..Len(s) : /\ StartsWith(Tail_from(s, i), p)
                                /\ \A j \in 1..(i-1) : ~StartsWith(Tail_from(s, j), p)
  ELSE 0

\* str.split(sep, 1)[0] when sep occurs in s, else s
Before(s, i) == IF i > 0 THEN SubSeq(s, 1, i-1) ELSE s

\* str.split('://', 1)[1] when '://' occurs in s, else s
AfterProtocol(s, i) == IF i > 0 THEN Tail_from(s, i + 3) ELSE s

WithoutPort(s) == Before(s, Find(s, ":"))

WithoutPath(s) == Before(s, Find(s, "/"))

\* LinkExtractor._extract_main_domain
extract_main_domain(dom) ==
  StripWww(WithoutPort(WithoutPath(AfterProtocol(dom, FindSub(dom, <<":","/","/">>)))))

(***************************************************************************)
(* The runs that are explored: constructor arguments, the ignore file and  *)
(* the pages the network serves.  A page is the sequence of href values of *)
(* its a/link/area tags; a URL without a page makes session.get raise.     *)
(***************************************************************************)
\* Number of worker threads (-t) of the concurrent runs
Threads == 2
\* How often the five-minute timer of run() lets save_links fire in one run
MaxPeriodicSaves == 1
\* The frontier capacity (5000 in process_url) of the run with small limits
QueueCap == 2
\* self.max_urls_per_domain (1000 after __init__) of the run with small limits
DomainCap == 3
\* self.max_proxy_attempts (10 after __init__) of the run with two proxies
AttemptCap == 1
\* self.max_proxy_failures (3 after __init__) of the run with two proxies
FailureCap == 1

a_test        == <<"a",".","t","e","s","t">>
a_test_slash  == <<"a",".","t","e","s","t","/">>
ads_test      == <<"a","d","s",".","t","e","s","t">>
url_a         == <<"h","t","t","p","s",":","/","/","a",".","t","e","s","t">>
url_a_slash   == <<"h","t","t","p","s",":","/","/","a",".","t","e","s","t","/">>
url_b         == <<"h","t","t","p","s",":","/","/","a",".","t","e","s","t","/","b">>
url_b_q       == <<"h","t","t","p","s",":","/","/","a",".","t","e","s","t","/","b","/","?">>
url_b_q_slash == <<"h","t","t","p","s",":","/","/","a",".","t","e","s","t","/","b","/","?","/">>
url_c         == <<"h","t","t","p","s",":","/","/","a",".","t","e","s","t","/","c">>
url_d         == <<"h","t","t","p","s",":","/","/","a",".","t","e","s","t","/","d">>
url_cx        == <<"h","t","t","p","s",":","/","/","c",".","t","e","s","t","/","x">>
url_ads       == <<"h","t","t","p",":","/","/","a","d","s",".","t","e","s","t","/","y">>
ref_b         == <<"/","b">>
ref_c         == <<"/","c">>
ref_d         == <<"/","d">>
AUTO          == <<"A","U","T","O">>

\* Seed https://a.test/ whose page links to /b, https://a.test/b and
\* https://c.test/x, crawl restricted to a.test; /b links back to the seed.
SeedScenario ==
  [ domain |-> a_test_slash, threads |-> Threads, only_this_domain |-> a_test,
    ignore_file |-> {}, max_links |-> {},
    use_proxy |-> FALSE, proxy_pool |-> {}, live_proxies |-> {},
    queue_limit |-> queue_limit, max_urls_per_domain |-> max_urls_per_domain,
    max_proxy_failures |-> max_proxy_failures, max_proxy_attempts |-> max_proxy_attempts,
    web |-> (url_a :> <<ref_b, url_b, url_cx>>) @@ (url_b :> <<url_a_slash>>) ]

\* The ignore file lists ads.test; the seed page links to /b, /b links to
\* http://ads.test/y and to /c, and /c links to http://ads.test/y again.
IgnoreScenario ==
  [ domain |-> a_test, threads |-> Threads, only_this_domain |-> <<>>,
    ignore_file |-> {ads_test}, max_links |-> {},
    use_proxy |-> FALSE, proxy_pool |-> {}, live_proxies |-> {},
    queue_limit |-> queue_limit, max_urls_per_domain |-> max_urls_per_domain,
    max_proxy_failures |-> max_proxy_failures, max_proxy_attempts |-> max_proxy_attempts,
    web |-> (url_a :> <<ref_b>>) @@ (url_b :> <<url_ads, ref_c>>)
            @@ (url_c :> <<url_ads>>) ]

\* The seed page links to https://a.test/b/?/ and to /b: two distinct links
\* that process_url normalises to the same URL.
AliasScenario ==
  [ domain |-> a_test, threads |-> Threads, only_this_domain |-> AUTO,
    ignore_file |-> {}, max_links |-> {},
    use_proxy |-> FALSE, proxy_pool |-> {}, live_proxies |-> {},
    queue_limit |-> queue_limit, max_urls_per_domain |-> max_urls_per_domain,
    max_proxy_failures |-> max_proxy_failures, max_proxy_attempts |-> max_proxy_attempts,
    web |-> (url_a :> <<url_b_q_slash, ref_b>>) @@ (url_b :> <<>>) ]

\* --max-links 2 with a seed page of three links
CapScenario ==
  [ domain |-> a_test, threads |-> Threads, only_this_domain |-> <<>>,
    ignore_file |-> {}, max_links |-> {2},
    use_proxy |-> FALSE, proxy_pool |-> {}, live_proxies |-> {},
    queue_limit |-> queue_limit, max_urls_per_domain |-> max_urls_per_domain,
    max_proxy_failures |-> max_proxy_failures, max_proxy_attempts |-> max_proxy_attempts,
    web |-> (url_a :> <<ref_b, ref_c, ref_d>>) @@ (url_b :> <<ref_c>>) ]

\* --proxy with a provider that only ever offers an endpoint failing the
\* liveness test: no proxy can be acquired.
DeadProxyScenario ==
  [ domain |-> a_test, threads |-> 2, only_this_domain |-> <<>>,
    ignore_file |-> {}, max_links |-> {},
    use_proxy |-> TRUE, proxy_pool |-> {"p1"}, live_proxies |-> {},
    queue_limit |-> queue_limit, max_urls_per_domain |-> max_urls_per_domain,
    max_proxy_failures |-> max_proxy_failures, max_proxy_attempts |-> max_proxy_attempts,
    web |-> (url_a :> <<ref_b>>) @@ (url_b :> <<>>) ]

\* --proxy with a provider offering one endpoint, which passes the liveness
\* test; the seed page links to /b, /c and /d, which have no page.
LiveProxyScenario ==
  [ domain |-> a_test, threads |-> 1, only_this_domain |-> <<>>,
    ignore_file |-> {}, max_links |-> {},
    use_proxy |-> TRUE, proxy_pool |-> {"p2"},
    live_proxies |-> {"p2"},
    queue_limit |-> queue_limit, max_urls_per_domain |-> max_urls_per_domain,
    max_proxy_failures |-> max_proxy_failures, max_proxy_attempts |-> max_proxy_attempts,
    web |-> (url_a :> <<ref_b, ref_c, ref_d>>) ]

\* The seed page links to /b and /c; the fetch of /b fails (no page answers),
\* /c is a page without links.
ErrorScenario ==
  [ domain |-> a_test, threads |-> Threads, only_this_domain |-> <<>>,
    ignore_file |-> {}, max_links |-> {},
    use_proxy |-> FALSE, proxy_pool |-> {}, live_proxies |-> {},
    queue_limit |-> queue_limit, max_urls_per_domain |-> max_urls_per_domain,
    max_proxy_failures |-> max_proxy_failures, max_proxy_attempts |-> max_proxy_attempts,
    web |-> (url_a :> <<ref_b, ref_c>>) @@ (url_c :> <<>>) ]

\* The limits of process_url scaled down: a frontier of QueueCap entries and
\* DomainCap URLs per domain.  The seed page links to /b, /c and /d (more
\* links than the frontier holds), /b links to /d again and back to the seed.
LimitsScenario ==
  [ domain |-> a_test, threads |-> 2, only_this_domain |-> <<>>,
    ignore_file |-> {}, max_links |-> {},
    use_proxy |-> FALSE, proxy_pool |-> {}, live_proxies |-> {},
    queue_limit |-> QueueCap, max_urls_per_domain |-> DomainCap,
    max_proxy_failures |-> max_proxy_failures, max_proxy_attempts |-> max_proxy_attempts,
    web |-> (url_a :> <<ref_b, ref_c, ref_d>>) @@ (url_b :> <<ref_d, url_a_slash>>) ]

\* --proxy with two threads and a provider offering two endpoints that both
\* pass the liveness test, the proxy limits scaled down to AttemptCap passes
\* and FailureCap failures.  The seed page links to /b and /c; /c is a page
\* without links, /b has no page.
RaceScenario ==
  [ domain |-> a_test, threads |-> 2, only_this_domain |-> <<>>,
    ignore_file |-> {}, max_links |-> {},
    use_proxy |-> TRUE, proxy_pool |-> {"p2", "p3"}, live_proxies |-> {"p2", "p3"},
    queue_limit |-> queue_limit, max_urls_per_domain |-> max_urls_per_domain,
    max_proxy_failures |-> FailureCap, max_proxy_attempts |-> AttemptCap,
    web |-> (url_a :> <<ref_b, ref_c>>) @@ (url_c :> <<>>) ]

\* The seed page has one link, https://a.test/b/?/, whose key
\* https://a.test/b/? process_url normalises once more when it is dispatched
SlashQueryScenario ==
  [ domain |-> a_test, threads |-> Threads, only_this_domain |-> <<>>,
    ignore_file |-> {}, max_links |-> {},
    use_proxy |-> FALSE, proxy_pool |-> {}, live_proxies |-> {},
    queue_limit |-> queue_limit, max_urls_per_domain |-> max_urls_per_domain,
    max_proxy_failures |-> max_proxy_failures, max_proxy_attempts |-> max_proxy_attempts,
    web |-> (url_a :> <<url_b_q_slash>>) @@ (url_b :> <<>>) ]

Scenarios ==
  << SeedScenario, IgnoreScenario, AliasScenario, CapScenario,
     DeadProxyScenario, LiveProxyScenario, ErrorScenario, LimitsScenario,
     RaceScenario, SlashQueryScenario >>

\* The runs without proxy, and the runs with --proxy
CrawlRuns == 1..4
ProxyRuns == {5, 6}

(***************************************************************************)
(* State                                                                   *)
(***************************************************************************)
VARIABLES
  scenario,             \* index of the run's configuration in Scenarios
  visited_urls,         \* self.visited_urls
  found_links,          \* self.found_links
  urls_to_visit,        \* self.urls_to_visit (deque)
  saved_links,          \* self.saved_links
  output_file,          \* the lines of self.output_file
  lock,                 \* self.lock: the threads holding it (none or one)
  file_lock,            \* self.file_lock: the threads holding it (0 is run())
  running,              \* self.running
  last_links_count,     \* self.last_links_count
  no_new_links_cycles,  \* self.no_new_links_cycles
  domain_url_count,     \* self.domain_url_count
  tasks,                \* the process_url calls submitted to the executor
  futures,              \* run(): futures (indices into tasks)
  completed_futures,    \* run(): completed_futures
  pc,                   \* run(): position of the orchestration loop
  periodic_saves,       \* how often the five-minute timer has fired
  fetches,              \* per URL, the extract_links_from_page calls made
  signalled,            \* SIGINT was delivered (the exit timer is armed)
  exited,               \* os._exit(0) ended the process
  probe,                \* one call of a pure function: arguments, result
  current_proxy,        \* self.current_proxy
  proxy_failures,       \* self.proxy_failures
  failed_proxies,       \* self.failed_proxies
  session_proxies,      \* self.session.proxies: the endpoints it maps to
  requests_sent         \* the session.get calls made: URL, proxy of the session

vars == << scenario, visited_urls, found_links, urls_to_visit, saved_links,
           output_file, lock, file_lock, running, last_links_count,
           no_new_links_cycles, domain_url_count, tasks, futures,
           completed_futures, pc, periodic_saves, fetches, signalled, exited,
           probe, current_proxy, proxy_failures, failed_proxies,
           session_proxies, requests_sent >>

\* Constructor arguments of the run
cfg == Scenarios[scenario]
threads == cfg.threads
max_links == cfg.max_links
\* self.use_proxy (PROXY_AVAILABLE: the free-proxy package is installed)
use_proxy == cfg.use_proxy

\* LinkExtractor.__init__: only_this_domain
only_this_domain ==
  IF cfg.only_this_domain = AUTO THEN extract_main_domain(cfg.domain)
  ELSE cfg.only_this_domain

\* LinkExtractor.load_ignored_domains (the lines hold no whitespace)
load_ignored_domains(lines) ==
  { Lower(l) : l \in { x \in lines : x # <<>> /\ x[1] # "#" } }

ignored_domains == load_ignored_domains(cfg.ignore_file)

\* deque.append on a deque with maxlen
deque_append(q, x) ==
  IF Len(q) >= deque_maxlen THEN Tail(q) \o <<x>> ELSE q \o <<x>>

\* extract_links_from_page: list(set(links))[:100]
FirstLinks(valid) ==
  IF Cardinality(valid) <= max_links_per_page THEN { valid }
  ELSE { T \in SUBSET valid : Cardinality(T) = max_links_per_page }

\* extract_links_from_page: the href values made absolute, normalised and
\* filtered by is_valid_url
PageLinks(url, hrefs) ==
  { l \in { normalize_url(urljoin(url, hrefs[i])) : i \in 1..Len(hrefs) } :
      is_valid_url(l) }

\* LinkExtractor.extract_links_from_page without a proxy: the list it
\* returns, as the set of its members (its order is that of a Python set)
extract_links_from_page(url) ==
  IF url \notin DOMAIN cfg.web THEN { {} }
  ELSE FirstLinks(PageLinks(url, cfg.web[url]))

(***************************************************************************)
(* Proxy Manager: _get_new_proxy, _test_proxy                              *)
(***************************************************************************)
\* Python's None
None == "None"

\* FreeProxy(...).get(): an endpoint of the provider's pool, or None (no
\* endpoint was obtained, or the library raised)
ProxyCandidates == cfg.proxy_pool \cup {None}

\* LinkExtractor._test_proxy: the probe of httpbin.org through the endpoint
test_proxy(proxy) == proxy \in cfg.live_proxies

\* The proxy fields of a LinkExtractor whose session has no proxy yet
NoProxyState ==
  [ ok |-> FALSE, current |-> None, failures |-> 0, failed |-> {}, session |-> {} ]

\* _get_new_proxy: one pass of its while loop on the proxy fields ps, when
\* the provider answers proxy; ok tells whether the pass returned True
Attempt(ps, proxy) ==
  IF proxy = None \/ proxy \in ps.failed THEN [ps EXCEPT !.ok = FALSE]
  ELSE IF test_proxy(proxy)
       THEN [ ok |-> TRUE, current |-> proxy, failures |-> 0,
              failed |-> ps.failed, session |-> {proxy} ]
       ELSE [ps EXCEPT !.ok = FALSE, !.failed = @ \cup {proxy}]

\* One pass of the loop from each of the proxy states of S
AttemptAll(S) == UNION { { Attempt(ps, proxy) : proxy \in ProxyCandidates } : ps \in S }

\* _get_new_proxy run to its end without interleaving (as _setup_session
\* calls it in the constructor): the proxy states it can end in after at most
\* n passes from the states of S
RECURSIVE get_new_proxy(_, _)
get_new_proxy(S, n) ==
  IF n = 0 \/ S = {} THEN S
  ELSE { r \in AttemptAll(S) : r.ok }
       \cup get_new_proxy({ r \in AttemptAll(S) : ~r.ok }, n - 1)

\* _setup_session: 'if self.use_proxy: self._get_new_proxy()'
setup_session(s) ==
  IF Scenarios[s].use_proxy THEN get_new_proxy({NoProxyState}, Scenarios[s].max_proxy_attempts)
  ELSE {NoProxyState}

(***************************************************************************)
(* Initial state: LinkExtractor.__init__                                   *)
(***************************************************************************)
\* No policy predicate is called on its own in a crawl
NoProbe ==
  [ url |-> <<>>, only |-> <<>>, ignored |-> {}, called |-> FALSE, result |-> FALSE ]

\* LinkExtractor.__init__ for the configuration s of Scenarios
Construct(s) ==
  /\ scenario = s
  /\ visited_urls = {}
  /\ found_links = {}
  /\ urls_to_visit = << <<"h","t","t","p","s",":","/","/">> \o Scenarios[scenario].domain >>
  /\ saved_links = {}
  /\ output_file = <<>>
  /\ lock = {}
  /\ file_lock = {}
  /\ running = TRUE
  /\ last_links_count = 0
  /\ no_new_links_cycles = 0
  /\ domain_url_count = << >>
  /\ tasks = <<>>
  /\ futures = {}
  /\ completed_futures = {}
  /\ pc = "while"
  /\ periodic_saves = 0
  /\ fetches = << >>
  /\ signalled = FALSE
  /\ exited = FALSE
  /\ \E ps \in setup_session(s) :
       /\ current_proxy = ps.current
       /\ proxy_failures = ps.failures
       /\ failed_proxies = ps.failed
       /\ session_proxies = ps.session
  /\ requests_sent = {}

Init ==
  /\ \E s \in CrawlRuns : Construct(s)
  /\ probe = NoProbe

(***************************************************************************)
(* Worker task: LinkExtractor.process_url                                  *)
(***************************************************************************)
\* process_url: the first test of self.running, and normalize_url
ProcessUrlStart(t) ==
  /\ ~exited
  /\ tasks[t].pc = "start"
  /\ tasks' = [tasks EXCEPT ![t] =
                 IF ~running THEN [@ EXCEPT !.pc = "done"]
                 ELSE [@ EXCEPT !.pc = "claim", !.url = normalize_url(@)]]
  /\ UNCHANGED << scenario, probe, current_proxy, proxy_failures, failed_proxies,
                  session_proxies, requests_sent, visited_urls, found_links, urls_to_visit, saved_links,
                  output_file, lock, file_lock, running, last_links_count,
                  no_new_links_cycles, domain_url_count, futures,
                  completed_futures, pc, periodic_saves, fetches, signalled, exited >>

\* A critical section entered without waiting for self.lock
lock_not_awaited == TRUE

\* 'with self.lock:': the lock can be taken
lock_available == lock = {}

\* The membership test made against the frontier instead of the visited set
visited_check_on_frontier(url) == url \in Range(urls_to_visit)

\* process_url: 'if url in self.visited_urls'
already_visited(url) == url \in visited_urls

\* process_url: the claim of the URL, one critical section of self.lock
ProcessUrlClaim(t) ==
  /\ ~exited
  /\ tasks[t].pc = "claim"
  /\ lock_available
  /\ IF already_visited(tasks[t].url)
     THEN /\ tasks' = [tasks EXCEPT ![t].pc = "done"]
          /\ UNCHANGED << visited_urls, domain_url_count >>
     ELSE /\ visited_urls' = visited_urls \cup {tasks[t].url}
          /\ domain_url_count' = increment_domain_count(tasks[t].url, domain_url_count)
          /\ tasks' = [tasks EXCEPT ![t].pc = "fetch"]
  /\ UNCHANGED << scenario, probe, current_proxy, proxy_failures, failed_proxies,
                  session_proxies, requests_sent, found_links, urls_to_visit, saved_links,
                  output_file, lock, file_lock, running, last_links_count,
                  no_new_links_cycles, futures,
                  completed_futures, pc, periodic_saves, fetches, signalled, exited >>

\* The except clauses returning the URL whose fetch failed
fetch_error_yields_url(url) == {url}

\* extract_links_from_page: what the except clauses return
on_fetch_error(url) == {}

\* process_url: the second test of self.running, then the call of
\* extract_links_from_page.  Without --proxy the proxy methods return at
\* once and the call is one step: session.get, and the harvest of the page
\* or the empty list of the except clauses.  With --proxy the call goes on
\* through the steps below.
ProcessUrlFetch(t) ==
  /\ ~exited
  /\ tasks[t].pc = "fetch"
  /\ IF ~running
     THEN /\ tasks' = [tasks EXCEPT ![t].pc = "done"]
          /\ UNCHANGED << fetches, requests_sent >>
     ELSE /\ fetches' = [ u \in DOMAIN fetches \cup {tasks[t].url} |->
                            IF u = tasks[t].url THEN Get(fetches, u) + 1 ELSE fetches[u] ]
          /\ IF use_proxy
             THEN /\ tasks' = [tasks EXCEPT ![t].pc = "ensure"]
                  /\ UNCHANGED requests_sent
             ELSE /\ requests_sent' = requests_sent
                                        \cup {[url |-> tasks[t].url, proxy |-> None]}
                  /\ IF tasks[t].url \in DOMAIN cfg.web
                     THEN \E links \in extract_links_from_page(tasks[t].url) :
                            tasks' = [tasks EXCEPT ![t].pc = "admit", ![t].links = links,
                                                   ![t].outcome = "ok"]
                     ELSE tasks' = [tasks EXCEPT ![t].pc = "admit",
                                                 ![t].links = on_fetch_error(tasks[t].url),
                                                 ![t].outcome = "error"]
  /\ UNCHANGED << scenario, probe, current_proxy, proxy_failures, failed_proxies,
                  session_proxies,
                  visited_urls, found_links, urls_to_visit, saved_links,
                  output_file, lock, file_lock, running, last_links_count,
                  no_new_links_cycles, domain_url_count, futures,
                  completed_futures, pc, periodic_saves, signalled, exited >>

(***************************************************************************)
(* extract_links_from_page with --proxy: _ensure_proxy_connection,         *)
(* _should_rotate_proxy, session.get, _mark_proxy_success and              *)
(* _handle_proxy_failure.  No lock guards the proxy fields.                *)
(***************************************************************************)
\* The proxy of the session, None when self.session.proxies is empty
SessionProxy ==
  IF session_proxies = {} THEN None ELSE CHOOSE p \in session_proxies : TRUE

\* The page is fetched whether or not a proxy could be established
never_skip(ok) == FALSE

\* extract_links_from_page: 'not self._ensure_proxy_connection()'
no_proxy_connection(ok) == ~ok

\* extract_links_from_page after _ensure_proxy_connection returned ok: the
\* page is skipped ('return []') or the call goes on
AfterEnsure(task, ok) ==
  IF no_proxy_connection(ok)
  THEN [task EXCEPT !.pc = "admit", !.links = {},
                    !.ensured = IF ok THEN "yes" ELSE "no"]
  ELSE [task EXCEPT !.pc = "rotate", !.ensured = IF ok THEN "yes" ELSE "no"]

\* _ensure_proxy_connection: with a current proxy it returns True, without
\* one it calls _get_new_proxy
ProxyEnsure(t) ==
  /\ ~exited
  /\ tasks[t].pc = "ensure"
  /\ tasks' = [tasks EXCEPT ![t] =
                 IF current_proxy = None \/ session_proxies = {}
                 THEN [@ EXCEPT !.pc = "acquire", !.ret = "ensure", !.attempts = 0]
                 ELSE AfterEnsure(@, TRUE)]
  /\ UNCHANGED << scenario, probe, current_proxy, proxy_failures, failed_proxies,
                  session_proxies, requests_sent,
                  visited_urls, found_links, urls_to_visit, saved_links,
                  output_file, lock, file_lock, running, last_links_count,
                  no_new_links_cycles, domain_url_count, futures,
                  completed_futures, pc, periodic_saves, fetches, signalled, exited >>

\* The caller of _get_new_proxy goes on with its result ok
AfterGetNewProxy(task, ok) ==
  IF task.ret = "ensure" THEN AfterEnsure(task, ok)
  ELSE IF task.ret = "rotate" THEN [task EXCEPT !.pc = "get"]
  ELSE IF ok THEN [task EXCEPT !.pc = "admit", !.links = on_fetch_error(task.url)]
  ELSE IF task.retries + 1 < max_retries
       THEN [task EXCEPT !.retries = @ + 1, !.attempts = 0]
       ELSE [task EXCEPT !.pc = "clear"]

\* The while condition written with <= instead of <
one_more_attempt(attempts) == attempts <= cfg.max_proxy_attempts

\* _get_new_proxy: 'while attempts < self.max_proxy_attempts'
more_attempts(attempts) == attempts < cfg.max_proxy_attempts

\* _get_new_proxy after a pass that installed nothing: the next pass (two
\* seconds later), or 'return False'
AfterFailedPass(task) ==
  IF more_attempts(task.attempts) THEN [task EXCEPT !.pc = "acquire", !.cand = None]
  ELSE AfterGetNewProxy([task EXCEPT !.cand = None], FALSE)

\* _get_new_proxy: the start of one pass of its while loop: 'attempts += 1',
\* the provider's answer and the test 'proxy and proxy not in
\* self.failed_proxies'
GetNewProxy(t) ==
  /\ ~exited
  /\ tasks[t].pc = "acquire"
  /\ \E proxy \in ProxyCandidates :
       tasks' = [tasks EXCEPT ![t] =
                   IF proxy # None /\ proxy \notin failed_proxies
                   THEN [@ EXCEPT !.attempts = @ + 1, !.pc = "probe", !.cand = proxy]
                   ELSE AfterFailedPass([@ EXCEPT !.attempts = @ + 1])]
  /\ UNCHANGED << scenario, probe, current_proxy, proxy_failures, failed_proxies,
                  session_proxies, requests_sent,
                  visited_urls, found_links, urls_to_visit, saved_links,
                  output_file, lock, file_lock, running, last_links_count,
                  no_new_links_cycles, domain_url_count, futures,
                  completed_futures, pc, periodic_saves, fetches, signalled, exited >>

\* _get_new_proxy: the rest of the pass: _test_proxy on the candidate (a
\* request of up to ten seconds), then the installation of the candidate and
\* 'return True', or failed_proxies.add
TestProxy(t) ==
  /\ ~exited
  /\ tasks[t].pc = "probe"
  /\ IF test_proxy(tasks[t].cand)
     THEN /\ current_proxy' = tasks[t].cand
          /\ proxy_failures' = 0
          /\ session_proxies' = {tasks[t].cand}
          /\ tasks' = [tasks EXCEPT ![t] = AfterGetNewProxy([@ EXCEPT !.cand = None], TRUE)]
          /\ UNCHANGED failed_proxies
     ELSE /\ failed_proxies' = failed_proxies \cup {tasks[t].cand}
          /\ tasks' = [tasks EXCEPT ![t] = AfterFailedPass(@)]
          /\ UNCHANGED << current_proxy, proxy_failures, session_proxies >>
  /\ UNCHANGED << scenario, probe, requests_sent,
                  visited_urls, found_links, urls_to_visit, saved_links,
                  output_file, lock, file_lock, running, last_links_count,
                  no_new_links_cycles, domain_url_count, futures,
                  completed_futures, pc, periodic_saves, fetches, signalled, exited >>

\* extract_links_from_page: 'if self._should_rotate_proxy():
\* self._get_new_proxy()'
ProxyRotate(t) ==
  /\ ~exited
  /\ tasks[t].pc = "rotate"
  /\ tasks' = [tasks EXCEPT ![t] =
                 IF proxy_failures >= cfg.max_proxy_failures
                 THEN [@ EXCEPT !.pc = "acquire", !.ret = "rotate", !.attempts = 0]
                 ELSE [@ EXCEPT !.pc = "get"]]
  /\ UNCHANGED << scenario, probe, current_proxy, proxy_failures, failed_proxies,
                  session_proxies, requests_sent,
                  visited_urls, found_links, urls_to_visit, saved_links,
                  output_file, lock, file_lock, running, last_links_count,
                  no_new_links_cycles, domain_url_count, futures,
                  completed_futures, pc, periodic_saves, fetches, signalled, exited >>

\* Every except clause calling _handle_proxy_failure
handled_whatever_the_error(outcome) == outcome # "ok"

\* extract_links_from_page: the except clauses of requests' Timeout,
\* ConnectionError and RequestException call _handle_proxy_failure, the
\* clause 'except Exception' does not
proxy_failure_handled(outcome) == outcome = "error"

\* extract_links_from_page: what follows an exception of the given kind:
\* _handle_proxy_failure, or 'return []' at once
AfterException(task, outcome) ==
  IF proxy_failure_handled(outcome)
  THEN [task EXCEPT !.pc = "failure", !.outcome = outcome, !.stopped = ~running]
  ELSE [task EXCEPT !.pc = "admit", !.links = on_fetch_error(task.url),
                    !.outcome = outcome, !.stopped = ~running]

\* extract_links_from_page: session.get through the proxy the session has
\* at that moment, and what follows the response: _mark_proxy_success and
\* the harvest, or an exception (after _mark_proxy_success when it is not
\* one of requests').  A request through a proxy can fail for any URL; a URL
\* without a page always fails.  The task notes whether self.running is
\* False when the request returns.
SessionGet(t) ==
  /\ ~exited
  /\ tasks[t].pc = "get"
  /\ requests_sent' = requests_sent
                        \cup {[url |-> tasks[t].url, proxy |-> SessionProxy]}
  /\ \/ /\ tasks[t].url \in DOMAIN cfg.web
        /\ proxy_failures' = 0
        /\ \E links \in extract_links_from_page(tasks[t].url) :
             tasks' = [tasks EXCEPT ![t].pc = "admit", ![t].links = links,
                                    ![t].outcome = "ok", ![t].stopped = ~running]
     \/ /\ tasks[t].url \in DOMAIN cfg.web
        /\ proxy_failures' = 0
        /\ tasks' = [tasks EXCEPT ![t] = AfterException(@, "other")]
     \/ /\ tasks[t].url \notin DOMAIN cfg.web \/ SessionProxy # None
        /\ tasks' = [tasks EXCEPT ![t] = AfterException(@, "error")]
        /\ UNCHANGED proxy_failures
  /\ UNCHANGED << scenario, probe, current_proxy, failed_proxies, session_proxies,
                  visited_urls, found_links, urls_to_visit, saved_links,
                  output_file, lock, file_lock, running, last_links_count,
                  no_new_links_cycles, domain_url_count, futures,
                  completed_futures, pc, periodic_saves, fetches, signalled, exited >>

\* _handle_proxy_failure: the current proxy is marked as failed, and
\* self.proxy_failures is read for 'self.proxy_failures += 1'
HandleProxyFailure(t) ==
  /\ ~exited
  /\ tasks[t].pc = "failure"
  /\ failed_proxies' = IF current_proxy # None
                       THEN failed_proxies \cup {current_proxy} ELSE failed_proxies
  /\ tasks' = [tasks EXCEPT ![t].pc = "count", ![t].seen = proxy_failures]
  /\ UNCHANGED << scenario, probe, current_proxy, proxy_failures,
                  session_proxies, requests_sent,
                  visited_urls, found_links, urls_to_visit, saved_links,
                  output_file, lock, file_lock, running, last_links_count,
                  no_new_links_cycles, domain_url_count, futures,
                  completed_futures, pc, periodic_saves, fetches, signalled, exited >>

\* _handle_proxy_failure: the store of 'self.proxy_failures += 1' and the
\* test of max_proxy_failures, which starts the retries of _get_new_proxy
HandleProxyFailureCount(t) ==
  /\ ~exited
  /\ tasks[t].pc = "count"
  /\ proxy_failures' = tasks[t].seen + 1
  /\ tasks' = [tasks EXCEPT ![t] =
                 IF tasks[t].seen + 1 >= cfg.max_proxy_failures
                 THEN [@ EXCEPT !.pc = "acquire", !.ret = "failure",
                                !.attempts = 0, !.retries = 0]
                 ELSE [@ EXCEPT !.pc = "admit", !.links = on_fetch_error(tasks[t].url)]]
  /\ UNCHANGED << scenario, probe, current_proxy, failed_proxies,
                  session_proxies, requests_sent,
                  visited_urls, found_links, urls_to_visit, saved_links,
                  output_file, lock, file_lock, running, last_links_count,
                  no_new_links_cycles, domain_url_count, futures,
                  completed_futures, pc, periodic_saves, fetches, signalled, exited >>

\* _handle_proxy_failure: no proxy after max_retries calls of
\* _get_new_proxy: self.session.proxies.clear(), self.current_proxy = None
HandleProxyFailureClear(t) ==
  /\ ~exited
  /\ tasks[t].pc = "clear"
  /\ session_proxies' = {}
  /\ current_proxy' = None
  /\ tasks' = [tasks EXCEPT ![t].pc = "admit", ![t].links = on_fetch_error(tasks[t].url)]
  /\ UNCHANGED << scenario, probe, proxy_failures, failed_proxies, requests_sent,
                  visited_urls, found_links, urls_to_visit, saved_links,
                  output_file, lock, file_lock, running, last_links_count,
                  no_new_links_cycles, domain_url_count, futures,
                  completed_futures, pc, periodic_saves, fetches, signalled, exited >>

\* process_url: 'with self.lock' around the loop over the harvested links
ProcessUrlLock(t) ==
  /\ ~exited
  /\ tasks[t].pc = "admit"
  /\ lock_available
  /\ lock' = {t}
  /\ tasks' = [tasks EXCEPT ![t].pc = "loop"]
  /\ UNCHANGED << scenario, probe, current_proxy, proxy_failures, failed_proxies,
                  session_proxies, requests_sent, visited_urls, found_links, urls_to_visit, saved_links,
                  output_file, file_lock, running, last_links_count,
                  no_new_links_cycles, domain_url_count, futures,
                  completed_futures, pc, periodic_saves, fetches, signalled, exited >>

\* The size test written with <= instead of <
may_add_off_by_one(link) ==
  /\ link \notin found_links
  /\ \A m \in max_links : Cardinality(found_links) <= m

\* Links outside the crawl scope are not recorded
may_add_in_scope(link) ==
  /\ link \notin found_links
  /\ \A m \in max_links : Cardinality(found_links) < m
  /\ should_follow_domain(link, ignored_domains, only_this_domain)

\* Every harvested link is dealt with, whether found_links holds it or not
may_add_known(link) ==
  \A m \in max_links : Cardinality(found_links) < m

\* process_url: 'link not in self.found_links and (self.max_links is None or
\* len(self.found_links) < self.max_links)'
may_add(link) ==
  /\ link \notin found_links
  /\ \A m \in max_links : Cardinality(found_links) < m

\* process_url: one iteration of 'for link in links' up to found_links.add,
\* or the end of the loop, which releases self.lock
ProcessUrlLoop(t) ==
  /\ ~exited
  /\ tasks[t].pc = "loop"
  /\ IF tasks[t].links = {}
     THEN /\ lock' = {}
          /\ tasks' = [tasks EXCEPT ![t].pc = "done"]
          /\ UNCHANGED found_links
     ELSE \E link \in tasks[t].links :
            /\ IF may_add(link)
               THEN /\ found_links' = found_links \cup {link}
                    /\ tasks' = [tasks EXCEPT ![t].links = @ \ {link},
                                              ![t].cur = link, ![t].pc = "save"]
               ELSE /\ tasks' = [tasks EXCEPT ![t].links = @ \ {link}]
                    /\ UNCHANGED found_links
            /\ UNCHANGED lock
  /\ UNCHANGED << scenario, probe, current_proxy, proxy_failures, failed_proxies,
                  session_proxies, requests_sent, visited_urls, urls_to_visit, saved_links,
                  output_file, file_lock, running, last_links_count,
                  no_new_links_cycles, domain_url_count, futures,
                  completed_futures, pc, periodic_saves, fetches, signalled, exited >>

\* save_link_realtime appending without looking at saved_links
always_unsaved(link) == TRUE

\* save_link_realtime: 'if link not in self.saved_links'
not_saved(link) == link \notin saved_links

\* LinkExtractor.save_link_realtime, one critical section of self.file_lock,
\* called by process_url while it holds self.lock
SaveLinkRealtime(t) ==
  /\ ~exited
  /\ tasks[t].pc = "save"
  /\ file_lock = {}
  /\ IF not_saved(tasks[t].cur)
     THEN /\ output_file' = Append(output_file, tasks[t].cur)
          /\ saved_links' = saved_links \cup {tasks[t].cur}
     ELSE UNCHANGED << output_file, saved_links >>
  /\ tasks' = [tasks EXCEPT ![t].pc = "enqueue"]
  /\ UNCHANGED << scenario, probe, current_proxy, proxy_failures, failed_proxies,
                  session_proxies, requests_sent, visited_urls, found_links, urls_to_visit,
                  lock, file_lock, running, last_links_count,
                  no_new_links_cycles, domain_url_count, futures,
                  completed_futures, pc, periodic_saves, fetches, signalled, exited >>

\* The admission test without 'link not in self.visited_urls'
may_enqueue_visited(link) ==
  /\ should_follow_domain(link, ignored_domains, only_this_domain)
  /\ should_crawl_url(link, ignored_domains, domain_url_count, cfg.max_urls_per_domain)
  /\ link \notin Range(urls_to_visit)
  /\ Len(urls_to_visit) < cfg.queue_limit

\* The admission test without the limit on the queue size
may_enqueue_unlimited(link) ==
  /\ should_follow_domain(link, ignored_domains, only_this_domain)
  /\ should_crawl_url(link, ignored_domains, domain_url_count, cfg.max_urls_per_domain)
  /\ link \notin visited_urls
  /\ link \notin Range(urls_to_visit)

\* process_url: the admission test of a link that was just recorded
may_enqueue(link) ==
  /\ should_follow_domain(link, ignored_domains, only_this_domain)
  /\ should_crawl_url(link, ignored_domains, domain_url_count, cfg.max_urls_per_domain)
  /\ link \notin visited_urls
  /\ link \notin Range(urls_to_visit)
  /\ Len(urls_to_visit) < cfg.queue_limit

\* process_url: the conditional self.urls_to_visit.append(link)
ProcessUrlEnqueue(t) ==
  /\ ~exited
  /\ tasks[t].pc = "enqueue"
  /\ urls_to_visit' = IF may_enqueue(tasks[t].cur)
                      THEN deque_append(urls_to_visit, tasks[t].cur)
                      ELSE urls_to_visit
  /\ tasks' = [tasks EXCEPT ![t].pc = "loop", ![t].cur = <<>>]
  /\ UNCHANGED << scenario, probe, current_proxy, proxy_failures, failed_proxies,
                  session_proxies, requests_sent, visited_urls, found_links, saved_links,
                  output_file, lock, file_lock, running, last_links_count,
                  no_new_links_cycles, domain_url_count, futures,
                  completed_futures, pc, periodic_saves, fetches, signalled, exited >>

(***************************************************************************)
(* Ledger batch writer: LinkExtractor.save_links, called by run()          *)
(***************************************************************************)
\* save_links: self.file_lock is taken, unsaved_links = found_links -
\* saved_links is computed and written in sorted order (no write fails)
SaveLinksBegin ==
  /\ ~exited
  /\ pc \in {"periodic_save", "final_save"}
  /\ file_lock = {}
  /\ file_lock' = {0}
  /\ LET unsaved_links == found_links \ saved_links
     IN /\ output_file' = output_file \o Sorted(unsaved_links)
        /\ saved_links' = saved_links \cup unsaved_links
  /\ pc' = IF pc = "periodic_save" THEN "periodic_save_end" ELSE "final_save_end"
  /\ UNCHANGED << scenario, probe, current_proxy, proxy_failures, failed_proxies,
                  session_proxies, requests_sent, visited_urls, found_links, urls_to_visit,
                  lock, running, last_links_count,
                  no_new_links_cycles, domain_url_count, tasks, futures,
                  completed_futures, periodic_saves, fetches, signalled, exited >>

\* The closing update made under self.lock, taken while self.file_lock is held
update_under_crawl_lock == lock = {}

\* save_links: the closing update takes no lock besides self.file_lock,
\* which the thread already holds
update_awaits_no_lock == TRUE

\* save_links: self.saved_links.update(self.found_links), then the lock is
\* released
SaveLinksEnd ==
  /\ ~exited
  /\ pc \in {"periodic_save_end", "final_save_end"}
  /\ update_awaits_no_lock
  /\ saved_links' = saved_links \cup found_links
  /\ file_lock' = {}
  /\ pc' = IF pc = "periodic_save_end" THEN "collect" ELSE "done"
  /\ UNCHANGED << scenario, probe, current_proxy, proxy_failures, failed_proxies,
                  session_proxies, requests_sent, visited_urls, found_links, urls_to_visit,
                  output_file, lock, running, last_links_count,
                  no_new_links_cycles, domain_url_count, tasks, futures,
                  completed_futures, periodic_saves, fetches, signalled, exited >>

(***************************************************************************)
(* Orchestration loop: LinkExtractor.run                                   *)
(***************************************************************************)
\* The loop written as 'while self.running:'
loop_while_running == running

\* run: 'while self.running and (self.urls_to_visit or futures)'
loop_condition == running /\ (urls_to_visit # <<>> \/ futures # {})

RunWhile ==
  /\ ~exited
  /\ pc = "while"
  /\ pc' = IF loop_condition THEN "submit" ELSE "join"
  /\ UNCHANGED << scenario, probe, current_proxy, proxy_failures, failed_proxies,
                  session_proxies, requests_sent, visited_urls, found_links, urls_to_visit, saved_links,
                  output_file, lock, file_lock, running, last_links_count,
                  no_new_links_cycles, domain_url_count, tasks, futures,
                  completed_futures, periodic_saves, fetches, signalled, exited >>

\* The submit test written with <= instead of <
submit_up_to_threads ==
  Cardinality(futures) <= threads /\ urls_to_visit # <<>> /\ running

\* run: 'len(futures) < self.threads and self.urls_to_visit and self.running'
submit_condition ==
  Cardinality(futures) < threads /\ urls_to_visit # <<>> /\ running

\* run: the test of the inner while
RunSubmit ==
  /\ ~exited
  /\ pc = "submit"
  /\ pc' = IF submit_condition THEN "dispatch" ELSE "collect"
  /\ UNCHANGED << scenario, probe, current_proxy, proxy_failures, failed_proxies,
                  session_proxies, requests_sent, visited_urls, found_links, urls_to_visit, saved_links,
                  output_file, lock, file_lock, running, last_links_count,
                  no_new_links_cycles, domain_url_count, tasks, futures,
                  completed_futures, periodic_saves, fetches, signalled, exited >>

\* run: the body of the inner while: popleft, executor.submit and
\* futures.append.  The signal handler runs in the main thread between two
\* bytecodes, so it can run after the test above and before this body.
RunDispatch ==
  /\ ~exited
  /\ pc = "dispatch"
  /\ urls_to_visit' = Tail(urls_to_visit)
  /\ tasks' = Append(tasks, [url |-> Head(urls_to_visit), pc |-> "start",
                             links |-> {}, cur |-> <<>>, outcome |-> "",
                             ensured |-> "", ret |-> "", attempts |-> 0,
                             retries |-> 0, seen |-> 0, cand |-> None,
                             stopped |-> FALSE, popped |-> Head(urls_to_visit)])
  /\ futures' = futures \cup {Len(tasks) + 1}
  /\ pc' = "submit"
  /\ UNCHANGED << scenario, probe, current_proxy, proxy_failures, failed_proxies,
                  session_proxies, requests_sent, visited_urls, found_links, saved_links,
                  output_file, lock, file_lock, running, last_links_count,
                  no_new_links_cycles, domain_url_count,
                  completed_futures, periodic_saves, fetches, signalled, exited >>

\* The completed futures stay in the list
keep_completed(fs, completed) == fs

\* run: 'for future in completed_futures: futures.remove(future)'
remove_completed(fs, completed) == fs \ completed

\* run: as_completed yields a finished future; the loop body breaks when
\* self.running is false, else records the future and, when five minutes
\* have passed since the last save, calls save_links
RunCollect ==
  /\ ~exited
  /\ pc = "collect"
  /\ \E f \in futures \ completed_futures :
       /\ tasks[f].pc = "done"
       /\ IF ~running
          THEN /\ futures' = remove_completed(futures, completed_futures)
               /\ completed_futures' = {}
               /\ pc' = "idle"
               /\ UNCHANGED periodic_saves
          ELSE /\ completed_futures' = completed_futures \cup {f}
               /\ UNCHANGED futures
               /\ \E timer \in BOOLEAN :
                    /\ timer => periodic_saves < MaxPeriodicSaves
                    /\ periodic_saves' = IF timer THEN periodic_saves + 1 ELSE periodic_saves
                    /\ pc' = IF timer THEN "periodic_save" ELSE "collect"
  /\ UNCHANGED << scenario, probe, current_proxy, proxy_failures, failed_proxies,
                  session_proxies, requests_sent, visited_urls, found_links, urls_to_visit, saved_links,
                  output_file, lock, file_lock, running, last_links_count,
                  no_new_links_cycles, domain_url_count, tasks,
                  fetches, signalled, exited >>

\* run: as_completed is exhausted, or raises TimeoutError after one second
\* while a future is unfinished; the completed futures are then removed
RunCollectEnd ==
  /\ ~exited
  /\ pc = "collect"
  /\ \/ futures \subseteq completed_futures
     \/ \E f \in futures \ completed_futures : tasks[f].pc # "done"
  /\ futures' = remove_completed(futures, completed_futures)
  /\ completed_futures' = {}
  /\ pc' = "idle"
  /\ UNCHANGED << scenario, probe, current_proxy, proxy_failures, failed_proxies,
                  session_proxies, requests_sent, visited_urls, found_links, urls_to_visit, saved_links,
                  output_file, lock, file_lock, running, last_links_count,
                  no_new_links_cycles, domain_url_count, tasks,
                  periodic_saves, fetches, signalled, exited >>

\* LinkExtractor.check_for_new_links: the new (last_links_count,
\* no_new_links_cycles) and the value returned
check_for_new_links ==
  LET current_count == Cardinality(found_links)
      cycles == IF current_count = last_links_count
                THEN no_new_links_cycles + 1 ELSE 0
  IN [last |-> current_count, cycles |-> cycles, go_on |-> cycles < max_idle_cycles]

\* run: 'if not self.urls_to_visit and not futures', the poll of the
\* termination detector and its break
RunIdleCheck ==
  /\ ~exited
  /\ pc = "idle"
  /\ IF urls_to_visit = <<>> /\ futures = {}
     THEN LET r == check_for_new_links
          IN /\ last_links_count' = r.last
             /\ no_new_links_cycles' = r.cycles
             /\ pc' = IF r.go_on THEN "cap" ELSE "join"
     ELSE /\ pc' = "cap"
          /\ UNCHANGED << last_links_count, no_new_links_cycles >>
  /\ UNCHANGED << scenario, probe, current_proxy, proxy_failures, failed_proxies,
                  session_proxies, requests_sent, visited_urls, found_links, urls_to_visit, saved_links,
                  output_file, lock, file_lock, running,
                  domain_url_count, tasks, futures,
                  completed_futures, periodic_saves, fetches, signalled, exited >>

\* The safety check written with > instead of >=
cap_exceeded == \E m \in max_links : Cardinality(found_links) > m

\* run: 'self.max_links is not None and len(self.found_links) >= self.max_links'
cap_reached == \E m \in max_links : Cardinality(found_links) >= m

\* run: the safety check that ends the loop on the link cap
RunCapCheck ==
  /\ ~exited
  /\ pc = "cap"
  /\ pc' = IF cap_reached THEN "join" ELSE "while"
  /\ UNCHANGED << scenario, probe, current_proxy, proxy_failures, failed_proxies,
                  session_proxies, requests_sent, visited_urls, found_links, urls_to_visit, saved_links,
                  output_file, lock, file_lock, running, last_links_count,
                  no_new_links_cycles, domain_url_count, tasks, futures,
                  completed_futures, periodic_saves, fetches, signalled, exited >>

\* The two-second waits time out and nothing else waits for the tasks
join_times_out == TRUE

\* run: the exit of 'with ThreadPoolExecutor' is shutdown(wait=True), which
\* returns when every submitted task has returned
tasks_joined == \A t \in 1..Len(tasks) : tasks[t].pc = "done"

\* run: after the loop, future.result(timeout=2) for the remaining futures
\* and the exit of 'with ThreadPoolExecutor', which waits for every task
RunJoin ==
  /\ ~exited
  /\ pc = "join"
  /\ tasks_joined
  /\ pc' = "finally"
  /\ UNCHANGED << scenario, probe, current_proxy, proxy_failures, failed_proxies,
                  session_proxies, requests_sent, visited_urls, found_links, urls_to_visit, saved_links,
                  output_file, lock, file_lock, running, last_links_count,
                  no_new_links_cycles, domain_url_count, tasks, futures,
                  completed_futures, periodic_saves, fetches, signalled, exited >>

\* run: the finally block: the final flush when self.running is still true
RunFinally ==
  /\ ~exited
  /\ pc = "finally"
  /\ running' = FALSE
  /\ pc' = IF running THEN "final_save" ELSE "done"
  /\ UNCHANGED << scenario, probe, current_proxy, proxy_failures, failed_proxies,
                  session_proxies, requests_sent, visited_urls, found_links, urls_to_visit, saved_links,
                  output_file, lock, file_lock, last_links_count,
                  no_new_links_cycles, domain_url_count, tasks, futures,
                  completed_futures, periodic_saves, fetches, signalled, exited >>

(***************************************************************************)
(* SIGINT: LinkExtractor._signal_handler                                   *)
(***************************************************************************)
\* _signal_handler: self.running = False, and the one-second exit timer
SignalHandler ==
  /\ ~exited
  /\ ~signalled
  /\ pc # "done"
  /\ running' = FALSE
  /\ signalled' = TRUE
  /\ UNCHANGED << scenario, probe, current_proxy, proxy_failures, failed_proxies,
                  session_proxies, requests_sent, visited_urls, found_links, urls_to_visit, saved_links,
                  output_file, lock, file_lock, last_links_count,
                  no_new_links_cycles, domain_url_count, tasks, futures,
                  completed_futures, pc, periodic_saves, fetches, exited >>

\* _signal_handler: the timer fires os._exit(0), which ends every thread
ProcessExit ==
  /\ signalled
  /\ ~exited
  /\ exited' = TRUE
  /\ UNCHANGED << scenario, probe, current_proxy, proxy_failures, failed_proxies,
                  session_proxies, requests_sent, visited_urls, found_links, urls_to_visit, saved_links,
                  output_file, lock, file_lock, running, last_links_count,
                  no_new_links_cycles, domain_url_count, tasks, futures,
                  completed_futures, pc, periodic_saves, fetches, signalled >>

(***************************************************************************)
(* Specification                                                           *)
(***************************************************************************)
Main ==
  \/ RunWhile
  \/ RunSubmit
  \/ RunDispatch
  \/ RunCollect
  \/ RunCollectEnd
  \/ SaveLinksBegin
  \/ SaveLinksEnd
  \/ RunIdleCheck
  \/ RunCapCheck
  \/ RunJoin
  \/ RunFinally

Next ==
  \/ \E t \in 1..Len(tasks) : ProcessUrlStart(t)
  \/ \E t \in 1..Len(tasks) : ProcessUrlClaim(t)
  \/ \E t \in 1..Len(tasks) : ProcessUrlFetch(t)
  \/ \E t \in 1..Len(tasks) : ProcessUrlLock(t)
  \/ \E t \in 1..Len(tasks) : ProcessUrlLoop(t)
  \/ \E t \in 1..Len(tasks) : SaveLinkRealtime(t)
  \/ \E t \in 1..Len(tasks) : ProcessUrlEnqueue(t)
  \/ Main
  \/ SignalHandler
  \/ ProcessExit

\* The steps of the tasks the thread pool is running
Workers ==
  \E t \in 1..Len(tasks) :
    \/ ProcessUrlStart(t) \/ ProcessUrlClaim(t) \/ ProcessUrlFetch(t)
    \/ ProcessUrlLock(t) \/ ProcessUrlLoop(t) \/ SaveLinkRealtime(t)
    \/ ProcessUrlEnqueue(t)

Spec == Init /\ [][Next]_vars

\* The steps of extract_links_from_page in a run with --proxy
ProxySteps ==
  \/ \E t \in 1..Len(tasks) : ProxyEnsure(t)
  \/ \E t \in 1..Len(tasks) : GetNewProxy(t)
  \/ \E t \in 1..Len(tasks) : TestProxy(t)
  \/ \E t \in 1..Len(tasks) : ProxyRotate(t)
  \/ \E t \in 1..Len(tasks) : SessionGet(t)
  \/ \E t \in 1..Len(tasks) : HandleProxyFailure(t)
  \/ \E t \in 1..Len(tasks) : HandleProxyFailureCount(t)
  \/ \E t \in 1..Len(tasks) : HandleProxyFailureClear(t)

ProxyInit ==
  /\ \E s \in ProxyRuns : Construct(s)
  /\ probe = NoProbe

ProxyNext == Next \/ ProxySteps

\* The runs with --proxy
ProxySpec == ProxyInit /\ [][ProxyNext]_vars

\* Some task of the pool can take a step: ENABLED <<Workers>>_vars, written
\* out.  A task waits only for self.lock (to claim its URL, to admit the
\* harvested links) and for self.file_lock (in save_link_realtime).
WorkersEnabled ==
  /\ ~exited
  /\ \E t \in 1..Len(tasks) :
       \/ tasks[t].pc \in {"start", "fetch", "loop", "enqueue"}
       \/ tasks[t].pc \in {"claim", "admit"} /\ lock = {}
       \/ tasks[t].pc = "save" /\ file_lock = {}

\* The main thread and the pool's threads keep being scheduled, every fetch
\* returns (the requests carry timeouts), and the exit timer of the signal
\* handler fires: weak fairness of Main, of ProcessExit and of Workers (the
\* last with its enabling condition written out as WorkersEnabled).
FairSpec ==
  /\ Spec
  /\ WF_vars(Main)
  /\ WF_vars(ProcessExit)
  /\ ([]<>(~WorkersEnabled) \/ []<><<Workers>>_vars)

\* The run with --proxy, two threads and two live endpoints
RaceInit ==
  /\ Construct(9)
  /\ probe = NoProbe

\* The steps of that run when no SIGINT is delivered
RaceNext ==
  \/ \E t \in 1..Len(tasks) : ProcessUrlStart(t)
  \/ \E t \in 1..Len(tasks) : ProcessUrlClaim(t)
  \/ \E t \in 1..Len(tasks) : ProcessUrlFetch(t)
  \/ \E t \in 1..Len(tasks) : ProcessUrlLock(t)
  \/ \E t \in 1..Len(tasks) : ProcessUrlLoop(t)
  \/ \E t \in 1..Len(tasks) : SaveLinkRealtime(t)
  \/ \E t \in 1..Len(tasks) : ProcessUrlEnqueue(t)
  \/ Main
  \/ ProxySteps

RaceSpec == RaceInit /\ [][RaceNext]_vars

\* The run whose seed page links to a URL that cannot be fetched, under the
\* scheduling of FairSpec
ErrorInit ==
  /\ Construct(7)
  /\ probe = NoProbe

ErrorSpec ==
  /\ ErrorInit /\ [][Next]_vars
  /\ WF_vars(Main)
  /\ WF_vars(ProcessExit)
  /\ ([]<>(~WorkersEnabled) \/ []<><<Workers>>_vars)

\* The run with the small frontier capacity and per-domain limit
LimitsInit ==
  /\ Construct(8)
  /\ probe = NoProbe

LimitsSpec == LimitsInit /\ [][Next]_vars

\* That run, whose pages link back to the seed, under the scheduling of
\* FairSpec
FairLimitsSpec ==
  /\ LimitsSpec
  /\ WF_vars(Main)
  /\ WF_vars(ProcessExit)
  /\ ([]<>(~WorkersEnabled) \/ []<><<Workers>>_vars)

\* The run whose only harvested link ends in a slash-terminated query
SlashQueryInit ==
  /\ Construct(10)
  /\ probe = NoProbe

SlashQuerySpec == SlashQueryInit /\ [][Next]_vars

(***************************************************************************)
(* The Domain Policy predicates on their own: should_follow_domain is      *)
(* called once, on a URL, a scope domain and an ignored-domain set drawn   *)
(* from the sets below, on a freshly constructed LinkExtractor.            *)
(***************************************************************************)
example_com     == <<"e","x","a","m","p","l","e",".","c","o","m">>
Example_com     == <<"E","x","a","m","p","l","e",".","c","o","m">>
sub_example_com == <<"s","u","b",".","e","x","a","m","p","l","e",".","c","o","m">>
u_example       == <<"h","t","t","p","s",":","/","/","e","x","a","m","p","l","e",".","c","o","m">>
u_example_x     == <<"h","t","t","p","s",":","/","/","e","x","a","m","p","l","e",".","c","o","m","/","x">>
u_sub_x         == <<"h","t","t","p","s",":","/","/","s","u","b",".","e","x","a","m","p","l","e",".","c","o","m","/","x">>
u_notexample    == <<"h","t","t","p","s",":","/","/","n","o","t","e","x","a","m","p","l","e",".","c","o","m">>
u_evil          == <<"h","t","t","p","s",":","/","/","e","x","a","m","p","l","e",".","c","o","m",".","e","v","i","l",".","c","o","m">>
u_Sub_x         == <<"h","t","t","p","s",":","/","/","S","u","b",".","E","x","a","m","p","l","e",".","C","O","M","/","x">>
u_www           == <<"h","t","t","p","s",":","/","/","w","w","w",".","e","x","a","m","p","l","e",".","c","o","m","/">>
u_port          == <<"h","t","t","p","s",":","/","/","e","x","a","m","p","l","e",".","c","o","m",":","8","0","8","0","/","x">>
u_deep          == <<"h","t","t","p","s",":","/","/","a",".","b",".","e","x","a","m","p","l","e",".","c","o","m","/","x","?","q","=","1">>

PolicyUrls ==
  { u_example, u_example_x, u_sub_x, u_notexample, u_evil, u_Sub_x, u_www,
    u_port, u_deep, url_ads }

\* only_this_domain: none, or a domain as --onlythisdomain gives it
PolicyScopes == { <<>>, example_com, Example_com, sub_example_com }

\* ignored_domains as load_ignored_domains leaves it
PolicyIgnored == { {}, {ads_test}, {sub_example_com} }

PolicyInit ==
  /\ Construct(1)
  /\ probe \in [ url : PolicyUrls, only : PolicyScopes, ignored : PolicyIgnored,
                 called : {FALSE}, result : {FALSE} ]

\* One call of LinkExtractor.should_follow_domain
ShouldFollowDomain ==
  /\ ~probe.called
  /\ probe' = [probe EXCEPT !.called = TRUE,
                            !.result = should_follow_domain(probe.url, probe.ignored,
                                                            probe.only)]
  /\ UNCHANGED << scenario, current_proxy, proxy_failures, failed_proxies,
                  session_proxies, requests_sent,
                  visited_urls, found_links, urls_to_visit, saved_links,
                  output_file, lock, file_lock, running, last_links_count,
                  no_new_links_cycles, domain_url_count, tasks, futures,
                  completed_futures, pc, periodic_saves, fetches, signalled, exited >>

PolicyNext == ShouldFollowDomain

PolicySpec == PolicyInit /\ [][PolicyNext]_vars

(***************************************************************************)
(* The URL Normalizer on its own: normalize_url is called on a string      *)
(* drawn from the set below, and then on its own result (process_url       *)
(* normalises again the URLs that extract_links_from_page normalised).     *)
(***************************************************************************)
NormalizeSchemes == { <<>>, <<"h","t","t","p",":","/","/">>, <<"h","t","t","p","s",":","/","/">> }
NormalizeHosts   == { a_test, <<"A",".","T","e","s","t">> }
NormalizePaths   == { <<>>, <<"/">>, <<"/","b">>, <<"/","b","/">> }
NormalizeTails   == { <<>>, <<"?">>, <<"?","q","=","1">>, <<"?","/">>, <<"#","f">> }

\* Scheme (or none), host, path, and an empty or slash-terminated query or a
\* fragment (or none)
NormalizeInputs ==
  { sc \o h \o pa \o tl : sc \in NormalizeSchemes, h \in NormalizeHosts,
                          pa \in NormalizePaths, tl \in NormalizeTails }

NormalizeInit ==
  /\ Construct(1)
  /\ probe \in [ url : NormalizeInputs, calls : {0}, first : {<<>>}, second : {<<>>} ]

\* One call of LinkExtractor.normalize_url: on the input, then on the result
\* of the first call
NormalizeUrl ==
  /\ probe.calls < 2
  /\ probe' = IF probe.calls = 0
              THEN [probe EXCEPT !.calls = 1, !.first = normalize_url(probe.url)]
              ELSE [probe EXCEPT !.calls = 2, !.second = normalize_url(probe.first)]
  /\ UNCHANGED << scenario, current_proxy, proxy_failures, failed_proxies,
                  session_proxies, requests_sent,
                  visited_urls, found_links, urls_to_visit, saved_links,
                  output_file, lock, file_lock, running, last_links_count,
                  no_new_links_cycles, domain_url_count, tasks, futures,
                  completed_futures, pc, periodic_saves, fetches, signalled, exited >>

NormalizeNext == NormalizeUrl

NormalizeSpec == NormalizeInit /\ [][NormalizeNext]_vars

(***************************************************************************)
(* is_valid_url, called on its own                                         *)
(***************************************************************************)
ValidSchemes == { <<>>, <<"h","t","t","p",":","/","/">>, <<"h","t","t","p","s",":","/","/">>,
                  <<"f","t","p",":","/","/">> }
ValidHosts   == { <<>>, a_test, <<"c","d","n",".","j","s">> }
ValidPaths   == { <<>>, <<"/","x">>, <<"/","x",".","p","d","f">>, <<"/","x",".","P","D","F">>,
                  <<"/","x",".","p","d","f","s">>, <<"/","x",".","p","d","f","/">> }
ValidTails   == { <<>>, <<"?","q","=","1">>, <<"?","f","=","x",".","p","d","f">>,
                  <<"#","f">>, <<"#","x",".","j","s">> }

\* The URLs is_valid_url is called on
ValidInputs ==
  { sc \o h \o pa \o tl : sc \in ValidSchemes, h \in ValidHosts,
                          pa \in ValidPaths, tl \in ValidTails }

ValidInit ==
  /\ Construct(1)
  /\ probe \in [ url : ValidInputs, called : {FALSE}, result : {FALSE} ]

\* One call of LinkExtractor.is_valid_url
IsValidUrl ==
  /\ ~probe.called
  /\ probe' = [probe EXCEPT !.called = TRUE, !.result = is_valid_url(probe.url)]
  /\ UNCHANGED << scenario, current_proxy, proxy_failures, failed_proxies,
                  session_proxies, requests_sent,
                  visited_urls, found_links, urls_to_visit, saved_links,
                  output_file, lock, file_lock, running, last_links_count,
                  no_new_links_cycles, domain_url_count, tasks, futures,
                  completed_futures, pc, periodic_saves, fetches, signalled, exited >>

ValidNext == IsValidUrl

ValidSpec == ValidInit /\ [][ValidNext]_vars

(***************************************************************************)
(* should_crawl_url, called on its own on a LinkExtractor that has loaded  *)
(* an ignore file and has dispatched nothing yet                           *)
(***************************************************************************)
www_ads_test == <<"w","w","w",".">> \o ads_test

IgnoreSchemes == { <<"h","t","t","p",":","/","/">>, <<"h","t","t","p","s",":","/","/">> }
IgnoreHosts   == { ads_test, www_ads_test, <<"x",".">> \o ads_test,
                   <<"x",".">> \o www_ads_test, <<"W","W","W",".","A","d","s",".","T","e","s","t">>,
                   <<"n","o","t">> \o ads_test, a_test }
IgnorePaths   == { <<>>, <<"/","y">> }

\* The URLs should_crawl_url is called on
IgnoreUrls ==
  { sc \o h \o pa : sc \in IgnoreSchemes, h \in IgnoreHosts, pa \in IgnorePaths }

\* The ignore files: the set of their lines
IgnoreFiles ==
  { {}, {ads_test}, {www_ads_test}, {<<"#"," ","a","d","s">>, <<>>, <<"A","d","s",".","T","e","s","t">>},
    {<<"x",".">> \o ads_test} }

IgnoreInit ==
  /\ Construct(1)
  /\ probe \in [ url : IgnoreUrls, lines : IgnoreFiles, called : {FALSE}, result : {FALSE} ]

\* One call of LinkExtractor.should_crawl_url
ShouldCrawlUrl ==
  /\ ~probe.called
  /\ probe' = [probe EXCEPT !.called = TRUE,
                            !.result = should_crawl_url(probe.url,
                                                        load_ignored_domains(probe.lines),
                                                        << >>, max_urls_per_domain)]
  /\ UNCHANGED << scenario, current_proxy, proxy_failures, failed_proxies,
                  session_proxies, requests_sent,
                  visited_urls, found_links, urls_to_visit, saved_links,
                  output_file, lock, file_lock, running, last_links_count,
                  no_new_links_cycles, domain_url_count, tasks, futures,
                  completed_futures, pc, periodic_saves, fetches, signalled, exited >>

IgnoreNext == ShouldCrawlUrl

IgnoreSpec == IgnoreInit /\ [][IgnoreNext]_vars

(***************************************************************************)
(* Properties                                                              *)
(***************************************************************************)
\* C1: extract_links_from_page is invoked at most once for every normalized
\* URL, in every interleaving of the workers: no URL has a fetch count above
\* one.
FetchedAtMostOnce == \A u \in DOMAIN fetches : fetches[u] <= 1

\* Two tasks were handed the same normalized URL, both have finished, and
\* the URL was fetched once.
SameUrlClaimedTwice ==
  \E t1, t2 \in 1..Len(tasks) :
    /\ t1 # t2
    /\ tasks[t1].url = tasks[t2].url
    /\ tasks[t1].pc = "done" /\ tasks[t2].pc = "done"
    /\ Get(fetches, tasks[t1].url) = 1
    /\ ~signalled

\* C2: the ledger file never holds the same URL on two lines, whatever the
\* interleaving of save_link_realtime and save_links.
NoDuplicateLines ==
  \A i, j \in 1..Len(output_file) : i # j => output_file[i] # output_file[j]

\* A worker is about to call save_link_realtime for a link that a batch
\* save_links has already written.
RealtimeAfterBatch ==
  \E t \in 1..Len(tasks) :
    /\ tasks[t].pc = "save"
    /\ tasks[t].cur \in Range(output_file)
    /\ periodic_saves > 0

\* C3: at normal completion of a run every member of found_links is a line
\* of the ledger file.
LedgerCompleteAtCompletion ==
  (pc = "done" /\ ~signalled) => found_links \subseteq Range(output_file)

\* C4: with max_links = K, found_links never has more than K members.
CapNeverExceeded == \A m \in max_links : Cardinality(found_links) <= m

\* The cap is reached while a worker still holds a harvested link that is
\* not in found_links.
CapFilledWithLinksLeft ==
  /\ \E m \in max_links : Cardinality(found_links) = m
  /\ \E t \in 1..Len(tasks) :
       /\ tasks[t].pc = "loop"
       /\ \E l \in tasks[t].links : l \notin found_links

\* len(found_links) has reached the configured max_links
CapHit == \E m \in max_links : Cardinality(found_links) >= m

\* The orchestration loop is over
LoopOver == pc \in {"join", "finally", "final_save", "final_save_end", "done"}

\* C5, as stated: once len(found_links) >= max_links no further URL is
\* taken from the frontier and submitted to the pool.
NoDispatchOnceCapReached == [][CapHit => Len(tasks') = Len(tasks)]_vars

\* C5, amended: once len(found_links) >= max_links the loop ends at the
\* safety check that closes the iteration in progress, also with a non-empty
\* frontier; only the submit phase of that iteration can still dispatch, and
\* the run terminates.
CapStopsLoop ==
  /\ [][(CapHit /\ pc \notin {"while", "submit", "dispatch"})
          => (Len(tasks') = Len(tasks) /\ pc' \notin {"while", "submit", "dispatch"})]_vars
  /\ [][(CapHit /\ pc = "cap" /\ pc' # pc) => pc' = "join"]_vars
  /\ (CapHit ~> (pc = "done" \/ exited))

\* The loop was ended by the cap with URLs left in the frontier, and the run
\* completed.
CapStoppedWithFrontier ==
  /\ CapHit
  /\ urls_to_visit # <<>>
  /\ pc = "done"
  /\ ~signalled

\* check_for_new_links has been called at least once
Polled == last_links_count > 0 \/ no_new_links_cycles > 0

Authority(url) ==
  Lower(WithoutPath(AfterProtocol(url, FindSub(url, <<":","/","/">>))))

\* h equals the domain S or ends with '.' followed by S
HostMatches(h, S) ==
  \/ h = S
  \/ Len(h) > Len(S) /\ SubSeq(h, Len(h) - Len(S), Len(h)) = <<".">> \o S

SeedProcessed ==
  /\ scenario = 1
  /\ Len(tasks) >= 1
  /\ tasks[1].pc = "done"
  /\ Get(fetches, url_a) = 1
  /\ \A t \in 2..Len(tasks) : tasks[t].pc \in {"start", "claim", "fetch", "admit"}

\* C8, as stated: in the seed scenario, after the seed has been processed,
\* found_links = {https://a.test, https://a.test/b, https://c.test/x}.
SeedResultSetWithSeed == SeedProcessed => found_links = {url_a, url_b, url_cx}

\* C8, amended: in the seed scenario, after the seed has been processed,
\* found_links = {https://a.test/b, https://c.test/x}: every collectible
\* harvested link, and not the seed URL itself.
SeedResultSet == SeedProcessed => found_links = {url_b, url_cx}

\* The seed has been processed and both harvested links are recorded.
SeedHarvested == SeedProcessed /\ url_b \in found_links /\ url_cx \in found_links

\* C9: in the seed scenario the frontier after the seed cycle is exactly
\* {https://a.test/b} (the entry is in the frontier or was just handed to a
\* task), and https://c.test/x is recorded in found_links but is never in the
\* frontier and never dispatched.
SeedFrontier ==
  scenario = 1 =>
    /\ url_cx \notin Range(urls_to_visit)
    /\ url_cx \notin visited_urls
    /\ \A t \in 1..Len(tasks) : tasks[t].url # url_cx
    /\ SeedProcessed =>
         /\ url_cx \in found_links
         /\ Range(urls_to_visit) \cup { tasks[t].url : t \in 2..Len(tasks) } = {url_b}
         /\ Len(tasks) = 1 => urls_to_visit = <<url_b>>

\* The seed has been processed, nothing else was dispatched, and the
\* frontier holds https://a.test/b alone while https://c.test/x is recorded.
SeedCycleDone ==
  /\ SeedProcessed
  /\ Len(tasks) = 1
  /\ urls_to_visit = <<url_b>>
  /\ url_cx \in found_links

\* In the ignore scenario http://ads.test/y is never in the frontier, never
\* handed to a task and never visited, and it is in found_links once /b has
\* been processed.
IgnoredLinkNeverCrawled ==
  scenario = 2 =>
    /\ url_ads \notin Range(urls_to_visit)
    /\ url_ads \notin visited_urls
    /\ \A t \in 1..Len(tasks) : tasks[t].url # url_ads
    /\ (pc = "done" /\ ~signalled) => url_ads \in found_links

\* C10: with ads.test in the ignored domains, the harvested link
\* http://ads.test/y is in found_links and in the ledger file, and is never
\* in the frontier and never dispatched, also when it is harvested again.
IgnoredLinkRecordedNeverCrawled ==
  /\ IgnoredLinkNeverCrawled
  /\ (scenario = 2 /\ pc = "done" /\ ~signalled) => url_ads \in Range(output_file)

NormalizeIdempotent == probe.calls = 2 => probe.second = probe.first

\* The part of C13 that holds in every run: the lines of the output file and
\* the in-memory saved_links are subsets of found_links, and at normal
\* completion saved_links = found_links.
SavedSubsetOfFound ==
  /\ Range(output_file) \subseteq found_links
  /\ saved_links \subseteq found_links
  /\ (pc = "done" /\ ~signalled) => saved_links = found_links

\* C13: the ledger (the lines written to the output file, mirrored by
\* saved_links) is a subset of found_links in every state, and after the final
\* save_links of a normally completed run the ledger equals found_links.
LedgerEqualsResultSetOnceFlushed ==
  /\ Range(output_file) \subseteq found_links
  /\ saved_links \subseteq found_links
  /\ (pc = "done" /\ ~signalled) => Range(output_file) = found_links

\* C14: once the signal handler has set self.running to false, run() pops
\* no URL from the frontier and submits no task.
NoDispatchAfterSignal == [][signalled => Len(tasks') = Len(tasks)]_vars

\* run() leaves its finally block through save_links when the signal has
\* been handled
SaveLinksOnCancellation ==
  [][(signalled /\ pc = "finally" /\ pc' # "finally") => pc' = "final_save"]_vars

\* At the return of a cancelled run every member of found_links is a line of
\* the output file
NothingUnsavedAfterCancellation ==
  (signalled /\ pc = "done") => found_links \subseteq Range(output_file)

\* C15: when the run is cancelled by the signal, run() goes through save_links
\* once before it returns, and at its return every member of found_links is
\* a line of the output file.
FlushedOnCancellation == SaveLinksOnCancellation /\ []NothingUnsavedAfterCancellation
\* The tasks whose fetch has failed
Failed(t) == tasks[t].outcome = "error"

\* C16: a task whose fetch fails gets the empty link list, and none of its
\* steps changes found_links, urls_to_visit, the output file or saved_links;
\* its URL is in visited_urls from then on; and the loop of run() goes on:
\* the URLs left in urls_to_visit are all taken out and submitted, unless
\* the stop signal arrives.
FailedFetchContained ==
  /\ [][\A t \in 1..Len(tasks) :
          (tasks'[t].outcome = "error" /\ tasks'[t] # tasks[t])
            => /\ tasks'[t].links = {}
               /\ UNCHANGED << found_links, urls_to_visit, output_file, saved_links >>]_vars
  /\ [](\A t \in 1..Len(tasks) : Failed(t) => tasks[t].url \in visited_urls)
  /\ ((\E t \in 1..Len(tasks) : Failed(t)) /\ urls_to_visit # <<>>)
        ~> (urls_to_visit = <<>> \/ signalled)

\* A task has ended on a failed fetch while the frontier still holds a URL
FailedWithFrontierLeft ==
  /\ ~signalled
  /\ urls_to_visit # <<>>
  /\ \E t \in 1..Len(tasks) : Failed(t) /\ tasks[t].pc = "done"
\* C17: with the frontier empty and no task in flight the loop of run() is
\* not left while no_new_links_cycles < 3: when the loop ends without stop
\* signal and without the max_links break, check_for_new_links has counted
\* three cycles without a new link.
IdleStopOnlyAfterThreeCycles ==
  [][(pc # "join" /\ pc' = "join" /\ running /\ ~CapHit)
       => no_new_links_cycles' >= max_idle_cycles]_vars
\* The six conditions of frontier admission on a harvested link: collectible,
\* in scope, crawlable, not visited, not in the frontier, frontier below
\* capacity
Admissible(link) ==
  /\ is_valid_url(link)
  /\ should_follow_domain(link, ignored_domains, only_this_domain)
  /\ ~is_domain_ignored(link, ignored_domains)
  /\ Get(domain_url_count, Lower(urlparse(link).netloc)) < cfg.max_urls_per_domain
  /\ link \notin visited_urls
  /\ link \notin Range(urls_to_visit)
  /\ Len(urls_to_visit) < cfg.queue_limit

\* The step appends link to the frontier
Pushed(link) == link \notin Range(urls_to_visit) /\ link \in Range(urls_to_visit')

\* The step is the loop iteration of task t on a harvested link that is not
\* added to found_links (it is there already, or max_links is reached)
Skipped(t, link) ==
  /\ tasks[t].pc = "loop" /\ link \in tasks[t].links
  /\ tasks'[t].pc = "loop" /\ link \notin tasks'[t].links

\* The step is the frontier admission test of task t on the link it has just
\* added to found_links
Tested(t, link) ==
  tasks[t].pc = "enqueue" /\ tasks[t].cur = link /\ tasks'[t].pc = "loop"

\* C18, as stated: when a task deals with a harvested link, the link is
\* appended to urls_to_visit if and only if the six conditions hold at that
\* time, also when the link had been harvested before.
PushedIffAdmissible ==
  [][\A t \in 1..Len(tasks) : \A link \in tasks[t].links \cup {tasks[t].cur} :
       (Skipped(t, link) \/ Tested(t, link)) => (Pushed(link) <=> Admissible(link))]_vars

\* C18, amended: a link is appended to urls_to_visit if and only if the task
\* has just added it to found_links and the six conditions hold at that time;
\* a harvested link that is not added to found_links is not appended, and a
\* link of found_links whose admission test is over never enters the
\* frontier.
PushedIffNewAndAdmissible ==
  [][/\ \A t \in 1..Len(tasks) : \A link \in tasks[t].links \cup {tasks[t].cur} :
          /\ Tested(t, link) => (Pushed(link) <=> Admissible(link))
          /\ Skipped(t, link) => ~Pushed(link)
     /\ \A link \in Range(urls_to_visit') \ Range(urls_to_visit) :
          \E t \in 1..Len(tasks) : Tested(t, link)
     /\ \A link \in found_links :
          (link \notin Range(urls_to_visit) /\ \A t \in 1..Len(tasks) : tasks[t].cur # link)
            => link \notin Range(urls_to_visit')]_vars

\* /d was dropped when the seed page yielded it, the task of /b has harvested
\* it again and is over, and /d, meeting the six conditions, is in found_links
\* but not in the frontier.
ReharvestedNotPushed ==
  /\ url_d \in found_links
  /\ Admissible(url_d)
  /\ \E t \in 1..Len(tasks) :
       tasks[t].url = url_b /\ tasks[t].outcome = "ok" /\ tasks[t].pc = "done"

\* C19: no URL is twice in urls_to_visit, which never holds more than its
\* capacity; a link tested while the frontier is at capacity is left out and
\* its task goes on with the next link.
FrontierWithoutDuplicates ==
  /\ [](\A i, j \in 1..Len(urls_to_visit) : urls_to_visit[i] = urls_to_visit[j] => i = j)
  /\ [](Len(urls_to_visit) <= cfg.queue_limit)
  /\ [][\A t \in 1..Len(tasks) :
          (Tested(t, tasks[t].cur) /\ Len(urls_to_visit) >= cfg.queue_limit)
            => (UNCHANGED urls_to_visit /\ tasks'[t].pc = "loop")]_vars

\* The frontier is at capacity and /d, harvested from the seed page, was left
\* out of it
DroppedAtCapacity ==
  /\ Len(urls_to_visit) = cfg.queue_limit
  /\ url_d \in found_links
  /\ url_d \notin Range(urls_to_visit)
  /\ \A t \in 1..Len(tasks) : tasks[t].url # url_d /\ tasks[t].cur # url_d

\* C20: for every host, domain_url_count (incremented for each URL a worker
\* takes up) never exceeds max_urls_per_domain.
DomainCountWithinCap ==
  \A h \in DOMAIN domain_url_count : domain_url_count[h] <= cfg.max_urls_per_domain
\* C21: the futures run() holds (tasks submitted and not yet removed as
\* completed) are never more than self.threads, and a URL is taken from the
\* frontier and submitted only while they are fewer than self.threads and
\* the frontier is non-empty.
InFlightAtMostThreads ==
  /\ [](Cardinality(futures) <= threads)
  /\ [][Len(tasks') > Len(tasks)
         => (Cardinality(futures) < threads /\ urls_to_visit # <<>>)]_vars

\* self.threads futures are in flight and the frontier still holds a URL
PoolFullWithFrontier ==
  /\ Cardinality(futures) = threads
  /\ urls_to_visit # <<>>
  /\ pc = "collect"
\* The step changes the frontier, the visited set, found_links or the
\* per-domain counters
SharedChanged ==
  << urls_to_visit, visited_urls, found_links, domain_url_count >>'
    # << urls_to_visit, visited_urls, found_links, domain_url_count >>

\* The step is made by the worker of task t
StepOf(t) == tasks'[t] # tasks[t]

\* Task t holds self.lock, or takes and releases it within the step
InCriticalSection(t) == lock = {t} \/ (lock = {} /\ lock' = {})

\* C22, as stated: every step that changes urls_to_visit, visited_urls,
\* found_links or domain_url_count, the popleft of run() included, is made by
\* a thread that holds self.lock.
EveryChangeUnderCrawlLock ==
  [][SharedChanged => \E t \in 1..Len(tasks) : StepOf(t) /\ InCriticalSection(t)]_vars

\* C22, amended: every change a worker makes to urls_to_visit, visited_urls,
\* found_links or domain_url_count is made in a critical section of
\* self.lock; run() holds no lock, and its only change to them is the
\* popleft of the first frontier entry, made whoever holds self.lock.
WorkerChangesUnderCrawlLock ==
  [][/\ \A t \in 1..Len(tasks) : (StepOf(t) /\ SharedChanged) => InCriticalSection(t)
     /\ (\A t \in 1..Len(tasks) : ~StepOf(t))
          => /\ UNCHANGED << visited_urls, found_links, domain_url_count >>
             /\ \/ UNCHANGED urls_to_visit
                \/ urls_to_visit # <<>> /\ urls_to_visit' = Tail(urls_to_visit)]_vars

\* The task of the seed is inside its critical section, and run() has taken
\* from the frontier and submitted a link that this task had appended
PoppedDuringCriticalSection ==
  /\ lock = {1}
  /\ Len(tasks) >= 2
\* C23: no thread appends to the output file while it holds self.lock.
NoAppendUnderCrawlLock ==
  [][Len(output_file') > Len(output_file)
       => \A t \in 1..Len(tasks) : StepOf(t) => lock # {t}]_vars

\* The step is the store of 'self.proxy_failures += 1' by task t
RecordsFailure(t) == tasks[t].pc = "count" /\ tasks'[t].pc # "count"

\* C24: each failure a worker records raises self.proxy_failures by exactly
\* one, whatever the other workers do at the same time (k concurrent
\* failures raise it by k).
EveryFailureCounted ==
  [][\A t \in 1..Len(tasks) :
       RecordsFailure(t) => proxy_failures' = proxy_failures + 1]_vars

\* The step is the installation of its candidate by task t:
\* 'self.current_proxy = proxy' after _test_proxy returned True
Installs(t) == tasks[t].pc = "probe" /\ test_proxy(tasks[t].cand) /\ tasks'[t].pc # "probe"

\* C26: _get_new_proxy never installs an endpoint that is in
\* self.failed_proxies at the moment of the installation.
NeverInstallsFailedProxy ==
  [][\A t \in 1..Len(tasks) :
       Installs(t) => tasks[t].cand \notin failed_proxies]_vars

\* C27: while self.proxy_failures is below self.max_proxy_failures the
\* current proxy is never replaced by another endpoint.
ReplacedOnlyAfterMaxFailures ==
  [][(current_proxy # None /\ current_proxy' # current_proxy)
       => proxy_failures >= cfg.max_proxy_failures]_vars

\* The step is the return of session.get to task t
FetchReturns(t) == tasks[t].pc = "get" /\ tasks'[t].pc # "get"

\* The step is the entry of task t into _handle_proxy_failure
EntersHandleProxyFailure(t) == tasks[t].pc # "failure" /\ tasks'[t].pc = "failure"

\* C28, as stated: with --proxy every fetch that ends in an error, whatever
\* its kind, calls _handle_proxy_failure.
EveryErrorRecorded ==
  [][\A t \in 1..Len(tasks) :
       (FetchReturns(t) /\ tasks'[t].outcome # "ok")
         => EntersHandleProxyFailure(t)]_vars

\* C28, amended: with --proxy a fetch calls _handle_proxy_failure exactly
\* when it ends in one of requests' exceptions (Timeout, ConnectionError,
\* HTTPError or another RequestException), and it calls it once, when
\* session.get returns; a fetch that ends in any other exception calls none;
\* a fetch that succeeds leaves self.proxy_failures at 0.
RequestErrorsRecordedOnce ==
  [][\A t \in 1..Len(tasks) :
       /\ FetchReturns(t) =>
            /\ tasks'[t].outcome = "error" <=> EntersHandleProxyFailure(t)
            /\ tasks'[t].outcome = "ok" => proxy_failures' = 0
       /\ EntersHandleProxyFailure(t) => (FetchReturns(t) /\ tasks[t].outcome = "")]_vars

\* A fetch ended in a requests exception after another one had succeeded, and
\* its worker is inside _handle_proxy_failure
FailureBeingRecorded ==
  /\ \E t \in 1..Len(tasks) : tasks[t].outcome = "error" /\ tasks[t].pc = "count"
  /\ \E t \in 1..Len(tasks) : tasks[t].outcome = "ok"

\* Task t is inside a call of _get_new_proxy
Acquiring(t) == tasks[t].pc \in {"acquire", "probe"}

\* C25: one call of _get_new_proxy asks the provider for at most
\* self.max_proxy_attempts candidates and returns; a pass that installs
\* nothing (and so a call that returns False) leaves self.current_proxy and
\* self.proxy_failures as they are; a candidate that passes _test_proxy
\* becomes the current proxy and self.proxy_failures is set to 0.
AcquireBoundedAndClean ==
  /\ [](\A t \in 1..Len(tasks) :
          /\ tasks[t].attempts <= cfg.max_proxy_attempts
          /\ tasks[t].pc = "acquire" => tasks[t].attempts < cfg.max_proxy_attempts)
  /\ [][\A t \in 1..Len(tasks) :
          (Acquiring(t) /\ StepOf(t)) =>
             IF Installs(t)
             THEN /\ current_proxy' = tasks[t].cand
                  /\ proxy_failures' = 0
                  /\ tasks'[t].pc \in {"rotate", "get", "admit"}
             ELSE UNCHANGED << current_proxy, proxy_failures >>]_vars

\* A call of _get_new_proxy made by _ensure_proxy_connection has returned
\* False after self.max_proxy_attempts passes
AcquireExhausted ==
  \E t \in 1..Len(tasks) :
    /\ tasks[t].ensured = "no"
    /\ tasks[t].attempts = cfg.max_proxy_attempts
    /\ current_proxy = None

\* C29: a worker whose fetch returned after self.running had been set to
\* False adds nothing to found_links, to the output file or to the frontier.
NothingAddedAfterStop ==
  [][\A t \in 1..Len(tasks) :
       (tasks[t].stopped /\ StepOf(t))
         => UNCHANGED << found_links, output_file, urls_to_visit >>]_vars

\* The path of the URL ends in one of the extensions of skip_extensions
PathExtensionDenied(url) ==
  \E ext \in skip_extensions : EndsWith(Lower(urlparse(url).path), ext)

\* C30: is_valid_url(url) is true exactly when the scheme of the URL is http
\* or https, its length is at most 2000, its host is not empty and the
\* extension of its path is not one of skip_extensions, whatever its query
\* string or its host end with.
ValidIffPathExtensionAllowed ==
  probe.called =>
    (probe.result <=>
       /\ urlparse(probe.url).scheme \in { <<"h","t","t","p">>, <<"h","t","t","p","s">> }
       /\ Len(probe.url) <= max_url_length
       /\ urlparse(probe.url).netloc # <<>>
       /\ ~PathExtensionDenied(probe.url))

\* C31: should_crawl_url rejects every URL whose host equals an entry loaded
\* from the ignore file or ends with '.' followed by an entry, entries that
\* begin with 'www.' included.
IgnoredHostNotCrawlable ==
  probe.called =>
    ((\E e \in load_ignored_domains(probe.lines) : HostMatches(Authority(probe.url), e))
       => ~probe.result)

\* C32: the key normalize_url returns for a URL with a host has that host in
\* lower case, no fragment and no trailing slash (so URLs that differ only in
\* the letter case of the host get the same key).
KeyHasLowercaseHost ==
  (probe.calls >= 1 /\ urlparse(probe.url).netloc # <<>>) =>
    /\ urlparse(probe.first).netloc = Lower(urlparse(probe.url).netloc)
    /\ "#" \notin Range(probe.first)
    /\ ~EndsWith(probe.first, <<"/">>)

\* C33: in every state each member of saved_links is a line of the output
\* file, also after the closing saved_links.update(found_links) of
\* save_links.
SavedLinksAreWritten == saved_links \subseteq Range(output_file)

\* C34: self.lock and self.file_lock cannot deadlock.  self.file_lock is held
\* across steps only by run(), inside save_links, where it waits for no
\* lock; a worker takes self.file_lock only while it holds self.lock (crawl
\* lock first, file lock second); and in every state of a run that has not
\* ended the orchestration loop or some worker can take a step.
LocksCannotDeadlock ==
  /\ [](file_lock # {} =>
          (file_lock = {0} /\ pc \in {"periodic_save_end", "final_save_end"}))
  /\ [](lock # {} =>
          \E t \in 1..Len(tasks) :
            lock = {t} /\ tasks[t].pc \in {"loop", "save", "enqueue"})
  /\ [][\A t \in 1..Len(tasks) :
          (tasks[t].pc = "save" /\ StepOf(t)) => (lock = {t} /\ file_lock = {})]_vars
  /\ []((~exited /\ pc # "done") => (ENABLED Main \/ WorkersEnabled))

\* A worker inside its critical section of self.lock waits for
\* self.file_lock, which run() holds inside save_links
WorkerWaitsForFileLock ==
  /\ file_lock = {0}
  /\ \E t \in 1..Len(tasks) : lock = {t} /\ tasks[t].pc = "save"

\* C35: with --proxy no session.get is made while the session has no proxy,
\* in any interleaving of the workers.
NoDirectFetch == \A r \in requests_sent : r.proxy # None

\* The seed as __init__ puts it into the frontier, and as process_url
\* normalises it
SeedKeys ==
  { <<"h","t","t","p","s",":","/","/">> \o cfg.domain,
    normalize_url(<<"h","t","t","p","s",":","/","/">> \o cfg.domain) }

\* C36: every URL in urls_to_visit or visited_urls, other than the seed, is in
\* found_links.
CrawledOnlyIfRecorded ==
  (Range(urls_to_visit) \cup visited_urls) \subseteq (found_links \cup SeedKeys)

\* The step is the insertion of link into found_links by task t, which goes
\* on to save_link_realtime and the admission test
Inserted(t, link) ==
  /\ tasks[t].pc = "loop" /\ tasks'[t].pc = "save" /\ tasks'[t].cur = link

\* C37: a URL is appended to urls_to_visit at most once in a run.  The
\* admission test is made only for a link that the task has just inserted
\* into found_links, where it was not before; an append is the outcome of
\* such a test; a URL that run() has popped, and a URL of found_links whose
\* test is over, never enter urls_to_visit; and no URL is twice in it.
AppendedAtMostOnce ==
  /\ [](\A i, j \in 1..Len(urls_to_visit) : i # j => urls_to_visit[i] # urls_to_visit[j])
  /\ [][/\ \A t \in 1..Len(tasks) : \A link \in tasks[t].links :
            Inserted(t, link) => (link \notin found_links /\ link \in found_links')
        /\ \A t \in 1..Len(tasks) :
            (tasks'[t].pc \in {"save", "enqueue"} /\ tasks[t].pc \notin {"save", "enqueue"})
              => \E link \in tasks[t].links : Inserted(t, link)
        /\ \A link \in Range(urls_to_visit') \ Range(urls_to_visit) :
            /\ \E t \in 1..Len(tasks) : Tested(t, link)
            /\ \A t \in 1..Len(tasks) : tasks[t].popped # link
            /\ \A t \in 1..Len(tasks) : tasks[t].cur = link => Tested(t, link)]_vars

\* The task of /b, whose page links to /d and back to the seed, is over: the
\* seed, popped long before, was recorded and left out of the frontier, and
\* so was /d, which the seed page had yielded when the frontier was full
PoppedAndDroppedStayOut ==
  /\ \E t \in 1..Len(tasks) :
       tasks[t].url = url_b /\ tasks[t].outcome = "ok" /\ tasks[t].pc = "done"
  /\ tasks[1].popped = url_a
  /\ {url_a, url_d} \subseteq found_links
  /\ \A t \in 1..Len(tasks) : tasks[t].popped # url_d
  /\ {url_a, url_d} \cap Range(urls_to_visit) = {}

\* The run is over: the frontier is empty, every dispatched task has
\* returned and run() has left its loop and its finally block
Terminated ==
  /\ pc = "done"
  /\ urls_to_visit = <<>>
  /\ \A t \in 1..Len(tasks) : tasks[t].pc = "done"

\* C38: a run without link cap that receives no stop signal terminates when
\* the main thread and the workers are scheduled fairly: eventually the
\* frontier is empty, every task in flight has completed and run() is over.
RunTerminates == <>(signalled \/ max_links # {} \/ Terminated)

\* A run without link cap and without signal has terminated after the page
\* of /b, which links back to the seed, was harvested
DrainedAndExited ==
  /\ Terminated
  /\ max_links = {}
  /\ ~signalled
  /\ futures = {}
  /\ \E t \in 1..Len(tasks) : tasks[t].url = url_b /\ tasks[t].outcome = "ok"
  /\ url_a \in found_links

\* The final save_links of run() has been entered
FinalFlush == pc \in {"final_save", "final_save_end"}

\* C39: the final flush of run(), which is made only when no stop signal
\* has cleared self.running, begins after every dispatched task has
\* returned, also when the loop was left on the link cap with tasks in
\* flight; from then on found_links does not change.
FlushAfterAllTasks ==
  /\ [](FinalFlush => \A t \in 1..Len(tasks) : tasks[t].pc = "done")
  /\ [][(FinalFlush \/ pc = "done") => found_links' = found_links]_vars

\* The loop was left on the link cap while the task of /b was still in the
\* list of futures; that task has returned and the final flush has written
\* the two links
FlushedAfterCapWithFutures ==
  /\ pc = "done"
  /\ ~signalled
  /\ CapHit
  /\ \E f \in futures : tasks[f].popped = url_b /\ tasks[f].pc = "done"
  /\ saved_links = found_links
====
